---- MODULE Spec2Model ----
(***************************************************************************)
(* A model of the fractal renderer: the escape-time evaluator and          *)
(* colorizer (Mandelbrot / Julia), the Barnsley fern accumulator and the   *)
(* image buffer of src/src/lib.rs, the evaluator of the alternate backend  *)
(* (src/calc/src/lib.rs) and the interactive viewer (src/src/gui.rs).      *)
(*                                                                         *)
(* Numbers.  An f64 is modelled as an exact extended rational <<n, d>>:    *)
(*   d > 0, gcd(n, d) = 1   a finite value n/d                             *)
(*   <<1, 0>>, <<-1, 0>>    +infinity, -infinity                           *)
(*   <<0, 0>>               NaN                                            *)
(* so that sums, products and quotients follow the IEEE rules for the      *)
(* special values; rounding of finite values is not modelled.              *)
(***************************************************************************)
EXTENDS Integers, Sequences, FiniteSets, TLC

VARIABLES
    pc,         \* where get_image stands: "start", "rows", "fern", "done", "panicked"
    rec,        \* the evaluator `recursive`: its arguments, loop state and result
    cfg,        \* the Config of the render under way
    rows,       \* get_image, escape-time arm: run -> row y -> the row Vec built so far
    image,      \* get_image, escape-time arm: run -> the collected buffer (<<>> before)
    buf,        \* an Image: [contents, width, height]
    call,       \* the last call made on buf: its arguments and what it found
    walk,       \* the fern accumulator: running point, iterations left, position
    eval,       \* a pure function under evaluation: its arguments and its result
    app         \* the GUI: the App, its render thread and the update under way

vars == <<pc, rec, cfg, rows, image, buf, call, walk, eval, app>>

----------------------------------------------------------------------------
(* Bounds of the model.                                                     *)

MaxIter == 3        \* largest iteration cap given to the evaluator
MaxDim == 2         \* largest width and height of a rendered image
MaxCalls == 2       \* most blend-writes made on a buffer on its own
MaxCap == 2         \* largest iteration cap of an escape-time render
MaxFernIter == 2    \* largest iteration cap of a fern render
MaxEdits == 3       \* most frames of the GUI in which the user changes the configuration

----------------------------------------------------------------------------
(* f64 arithmetic on extended rationals.                                    *)

Abs(n) == IF n < 0 THEN -n ELSE n

Sign(n) == IF n < 0 THEN -1 ELSE IF n > 0 THEN 1 ELSE 0

RECURSIVE GCD(_, _)
GCD(a, b) == IF b = 0 THEN a ELSE GCD(b, a % b)

\* the canonical form of the fraction n/d
Norm(n, d) ==
    IF d = 0 THEN <<Sign(n), 0>>
    ELSE LET g == GCD(Abs(n), Abs(d))
         IN  <<Sign(d) * (n \div g), Abs(d) \div g>>

F(n) == <<n, 1>>
Frac(n, d) == Norm(n, d)

NaN == <<0, 0>>
IsNaN(a) == a = NaN
IsFinite(a) == a[2] # 0

\* a * b; cross-cancelled first so that intermediate products stay small
FMul(a, b) ==
    IF a[2] = 0 \/ b[2] = 0 THEN <<Sign(a[1]) * Sign(b[1]), 0>>
    ELSE LET g1 == GCD(Abs(a[1]), b[2])
             g2 == GCD(Abs(b[1]), a[2])
         IN  <<(a[1] \div g1) * (b[1] \div g2), (a[2] \div g2) * (b[2] \div g1)>>

FNeg(a) == <<-a[1], a[2]>>

\* a + b; inf + (-inf) and anything with NaN is NaN
FAdd(a, b) ==
    IF IsNaN(a) \/ IsNaN(b) THEN NaN
    ELSE IF a[2] = 0 /\ b[2] = 0 THEN (IF a[1] = b[1] THEN a ELSE NaN)
    ELSE IF a[2] = 0 THEN a
    ELSE IF b[2] = 0 THEN b
    ELSE LET g == GCD(a[2], b[2])
         IN  Norm(a[1] * (b[2] \div g) + b[1] * (a[2] \div g), (a[2] \div g) * b[2])

FSub(a, b) == FAdd(a, FNeg(b))

\* 1 / a (a zero is +0.0: its reciprocal is +infinity)
FRecip(a) ==
    IF a[2] = 0 THEN (IF a[1] = 0 THEN NaN ELSE F(0))
    ELSE IF a[1] = 0 THEN <<1, 0>>
    ELSE <<Sign(a[1]) * a[2], Abs(a[1])>>

\* a / b; 0/0 and inf/inf are NaN
FDiv(a, b) ==
    IF IsNaN(a) \/ IsNaN(b) THEN NaN
    ELSE IF a[1] = 0 /\ b[1] = 0 THEN NaN
    ELSE IF a[2] = 0 /\ b[2] = 0 THEN NaN
    ELSE FMul(a, FRecip(b))

\* a > b, false when either is NaN
FGt(a, b) ==
    /\ ~IsNaN(a)
    /\ ~IsNaN(b)
    /\ IF a[2] = 0 /\ b[2] = 0 THEN a[1] > b[1]
       ELSE IF a[2] = 0 THEN a[1] > 0
       ELSE IF b[2] = 0 THEN b[1] < 0
       ELSE a[1] * b[2] > b[1] * a[2]

FLt(a, b) == FGt(b, a)

\* the integer part of a finite value, rounded toward zero
Trunc(a) == Sign(a[1]) * (Abs(a[1]) \div a[2])

\* `as u8`: NaN is 0, the value is truncated toward zero and saturates at 0 and 255
AsU8(a) ==
    IF IsNaN(a) THEN 0
    ELSE IF a[2] = 0 THEN (IF a[1] > 0 THEN 255 ELSE 0)
    ELSE IF a[1] < 0 THEN 0
    ELSE IF Trunc(a) > 255 THEN 255 ELSE Trunc(a)

RECURSIVE Pow2(_)
Pow2(n) == IF n = 0 THEN 1 ELSE 2 * Pow2(n - 1)

\* floor(q + r/d) scaled by 2^p, one binary digit of r/d at a time
RECURSIVE ScaleUp(_, _, _, _)
ScaleUp(q, r, d, p) ==
    IF p = 0 THEN q
    ELSE ScaleUp(2 * q + (IF 2 * r >= d THEN 1 ELSE 0),
                 IF 2 * r >= d THEN 2 * r - d ELSE 2 * r, d, p - 1)

\* floor(a * 2^p) of a finite a >= 0
ToFixed(a, p) == ScaleUp(a[1] \div a[2], a[1] % a[2], a[2], p)

\* the largest k in lo..hi with k * k <= n
RECURSIVE ISqrtIn(_, _, _)
ISqrtIn(n, lo, hi) ==
    IF lo >= hi THEN lo
    ELSE LET mid == (lo + hi + 1) \div 2
         IN  IF mid * mid <= n THEN ISqrtIn(n, mid, hi) ELSE ISqrtIn(n, lo, mid - 1)

\* f64::sqrt, to 6 binary places below the point: NaN below zero
FSqrt(a) ==
    IF IsNaN(a) THEN NaN
    ELSE IF a[1] < 0 THEN NaN
    ELSE IF a[2] = 0 THEN a
    ELSE Norm(ISqrtIn(ToFixed(a, 12), 0, 32767), 64)

\* the binary exponent e of a finite a > 0: 2^e <= a < 2^(e + 1)
RECURSIVE Exponent(_, _)
Exponent(a, e) ==
    IF FGt(F(1), a) THEN Exponent(FMul(a, F(2)), e - 1)
    ELSE IF FGt(F(2), a) THEN e
    ELSE Exponent(FMul(a, <<1, 2>>), e + 1)

\* a / 2^e, which lies in [1, 2)
RECURSIVE Mantissa(_)
Mantissa(a) ==
    IF FGt(F(1), a) THEN Mantissa(FMul(a, F(2)))
    ELSE IF FGt(F(2), a) THEN a
    ELSE Mantissa(FMul(a, <<1, 2>>))

\* the first `bits` binary places of log2(m / 4096) for m in 4096..8191 (the
\* mantissa with 12 places): square, and take a digit when the square reaches 2
RECURSIVE LogDigits(_, _, _)
LogDigits(m, bits, acc) ==
    IF bits = 0 THEN acc
    ELSE LET sq == (m * m) \div 4096
         IN  IF sq >= 8192 THEN LogDigits(sq \div 2, bits - 1, 2 * acc + 1)
             ELSE LogDigits(sq, bits - 1, 2 * acc)

\* f64::log2, to 8 binary places below the point: NaN below zero, -infinity at zero
FLog2(a) ==
    IF IsNaN(a) THEN NaN
    ELSE IF a[1] < 0 THEN NaN
    ELSE IF a[2] = 0 THEN a
    ELSE IF a[1] = 0 THEN <<-1, 0>>
    ELSE FAdd(F(Exponent(a, 0)), Norm(LogDigits(ToFixed(Mantissa(a), 12), 8, 0), 256))

----------------------------------------------------------------------------
(* Imaginary: a complex point [re, im].                                     *)

Imaginary(re, im) == [re |-> re, im |-> im]

ZERO == Imaginary(F(0), F(0))
ONE == Imaginary(F(1), F(1))

square(p) ==
    LET re == FSub(FMul(p.re, p.re), FMul(p.im, p.im))
        im == FMul(FMul(F(2), p.re), p.im)
    IN  Imaginary(re, im)

\* the difference of the squares: the mutant of squared_distance
squared_distance_minus(p) == FSub(FMul(p.re, p.re), FMul(p.im, p.im))

squared_distance(p) == FAdd(FMul(p.re, p.re), FMul(p.im, p.im))

add(p, q) == Imaginary(FAdd(p.re, q.re), FAdd(p.im, q.im))

mul(p, k) == Imaginary(FMul(p.re, k), FMul(p.im, k))

----------------------------------------------------------------------------
(* recursive: the escape-time evaluator, one loop iteration at a time.      *)
(* A loop state is [iterations, start, c, limit, previous, i, pc, ret].     *)

recursive_enter(iterations, start, c, limit) ==
    [iterations |-> iterations, start |-> start, c |-> c, limit |-> limit,
     previous |-> start, i |-> 0, evaluated |-> 0, pc |-> "loop", ret |-> <<>>]

\* `dist > squared` with `<`: the escape test inverted, a mutant
escapes_below(dist, squared) == FLt(dist, squared)

\* `dist > squared` with `>=`: the mutant of the escape test
escapes_mutant(dist, squared) == FGt(dist, squared) \/ dist = squared

escapes(dist, squared) == FGt(dist, squared)

\* the escape returning `(previous, i)`: the mutant of the early return
recursive_step_returns_previous(s) ==
    LET squared == FMul(s.limit, s.limit)
        next == add(square(s.previous), s.c)
        dist == squared_distance(next)
    IN  IF s.i < s.iterations
        THEN IF escapes(dist, squared)
             THEN [s EXCEPT !.pc = "done", !.ret = <<s.previous, s.i>>,
                            !.evaluated = s.evaluated + 1]
             ELSE [s EXCEPT !.previous = next, !.i = s.i + 1,
                            !.evaluated = s.evaluated + 1]
        ELSE [s EXCEPT !.pc = "done", !.ret = <<s.previous, s.iterations>>]

\* the loop run as `for i in 0..=iterations`: the mutant of the loop range
recursive_step_inclusive(s) ==
    LET squared == FMul(s.limit, s.limit)
        next == add(square(s.previous), s.c)
        dist == squared_distance(next)
    IN  IF s.i <= s.iterations
        THEN IF escapes(dist, squared)
             THEN [s EXCEPT !.pc = "done", !.ret = <<next, s.i>>,
                            !.evaluated = s.evaluated + 1]
             ELSE [s EXCEPT !.previous = next, !.i = s.i + 1,
                            !.evaluated = s.evaluated + 1]
        ELSE [s EXCEPT !.pc = "done", !.ret = <<s.previous, s.iterations>>]

\* one pass through `for i in 0..iterations { ... }`, or the return after it
recursive_step(s) ==
    LET squared == FMul(s.limit, s.limit)
        next == add(square(s.previous), s.c)
        dist == squared_distance(next)
    IN  IF s.i < s.iterations
        THEN IF escapes(dist, squared)
             THEN [s EXCEPT !.pc = "done", !.ret = <<next, s.i>>,
                            !.evaluated = s.evaluated + 1]
             ELSE [s EXCEPT !.previous = next, !.i = s.i + 1,
                            !.evaluated = s.evaluated + 1]
        ELSE [s EXCEPT !.pc = "done", !.ret = <<s.previous, s.iterations>>]

RECURSIVE recursive_run(_)
recursive_run(s) == IF s.pc = "done" THEN s.ret ELSE recursive_run(recursive_step(s))

\* recursive(iterations, start, c, limit) -> (Imaginary, u32)
recursive(iterations, start, c, limit) ==
    recursive_run(recursive_enter(iterations, start, c, limit))

----------------------------------------------------------------------------
(* RGB and the Image buffer.                                                *)

\* RGB::new(r, b, g): the second parameter is named b and the third g, and
\* the struct is built from the names
RGB_new(r, b, g) == [r |-> r, g |-> g, b |-> b]

BLACK == RGB_new(0, 0, 0)

\* usize::MAX, the value a cast of +infinity or of a value past 2^64 saturates
\* to; it stands outside the naturals of the model and every comparison
\* treats it apart
USIZE_MAX == -1

\* `as usize`: NaN and negative values are 0, +infinity is usize::MAX
AsUsize(a) ==
    IF IsNaN(a) THEN 0
    ELSE IF a[2] = 0 THEN (IF a[1] > 0 THEN USIZE_MAX ELSE 0)
    ELSE IF a[1] < 0 THEN 0
    ELSE Trunc(a)

\* Image::new(contents, width, height); contents[i + 1] is the slot of index i
Image_new(contents, width, height) ==
    [contents |-> contents, width |-> width, height |-> height]

None == [kind |-> "none", index |-> 0]
Panic == [kind |-> "panic", index |-> 0]
Some(index) == [kind |-> "some", index |-> index]

\* `y * self.width + x` in usize: the set of results the build can give.
\* An overflow panics in a debug build and wraps modulo 2^64 in a release
\* build, where usize::MAX * width + x is x - width modulo 2^64.
index_of(img, x, y) ==
    IF y = USIZE_MAX
    THEN IF img.width = 0 THEN {Some(x)}
         ELSE IF img.width = 1 /\ x = 0 THEN {Some(USIZE_MAX)}
         ELSE {Panic, IF x = img.width THEN Some(0) ELSE Some(USIZE_MAX)}
    ELSE {Some(y * img.width + x)}

\* `x > self.width`
x_out_of_row(img, x) == x = USIZE_MAX \/ x > img.width

\* `self.contents.len() < index` followed by `self.contents.get_mut(index)`
slot_at(img, index) ==
    IF index = USIZE_MAX THEN None
    ELSE IF Len(img.contents) < index THEN None
    ELSE IF index < Len(img.contents) THEN Some(index)
    ELSE None

\* Image::pixel_mut(x, y): the set of outcomes the build can give, each None,
\* Some(index of the slot returned) or Panic
pixel_mut(img, x, y) ==
    IF x_out_of_row(img, x) THEN {None}
    ELSE {IF i.kind = "panic" THEN Panic ELSE slot_at(img, i.index) :
            i \in index_of(img, x, y)}

\* one channel of the blend:
\* (old as f64 * 1.0 / ((((1.0 / (ch as f64 / 255.0)) - 1.0) * amount) + 1.0)) as u8
blend_channel(old, ch, amount) ==
    LET inverse == FDiv(F(1), FDiv(F(ch), F(255)))
        divisor == FAdd(FMul(FSub(inverse, F(1)), amount), F(1))
    IN  AsU8(FDiv(FMul(F(old), F(1)), divisor))

\* the pixel written by subtract_pixel over the pixel p
blend(p, value, amount) ==
    RGB_new(blend_channel(p.r, value.r, amount),
            blend_channel(p.g, value.g, amount),
            blend_channel(p.b, value.b, amount))

\* a write that also blends into the slot after the target: the mutant of the write
write_slot_smear(contents, index, value, amount) ==
    [j \in 1..Len(contents) |->
        IF j = index + 1 \/ j = index + 2
        THEN blend(contents[j], value, amount) ELSE contents[j]]

\* `*pixel = new`
write_slot(contents, index, value, amount) ==
    [contents EXCEPT ![index + 1] = blend(contents[index + 1], value, amount)]

\* Image::subtract_pixel(x, y, value, amount), given the outcome of pixel_mut
subtract_pixel(img, outcome, value, amount) ==
    IF outcome.kind # "some" THEN img
    ELSE [img EXCEPT !.contents =
                write_slot(img.contents, outcome.index, value, amount)]

----------------------------------------------------------------------------
(* Config and its accessors.  An Option is <<>> (None) or <<v>> (Some(v)).  *)

Mandelbrot == [tag |-> "Mandelbrot", c |-> ZERO]
BarnsleyFern == [tag |-> "BarnsleyFern", c |-> ZERO]
Julia(c) == [tag |-> "Julia", c |-> c]

\* the cap without the match on the algorithm: the mutant of Config::iterations
iterations_one_default(config) ==
    IF config.iterations # <<>> THEN config.iterations[1] ELSE 50

\* Config::iterations
iterations(config) ==
    IF config.iterations # <<>> THEN config.iterations[1]
    ELSE IF config.algo.tag \in {"Mandelbrot", "Julia"} THEN 50
    ELSE 10000000

\* Config::primary_color
primary_color(config) ==
    IF config.primary_color # <<>> THEN config.primary_color[1]
    ELSE IF config.algo.tag \in {"Mandelbrot", "Julia"} THEN RGB_new(40, 40, 255)
    ELSE RGB_new(4, 100, 3)

\* Config::secondary_color
secondary_color(config) ==
    IF config.secondary_color # <<>> THEN config.secondary_color[1]
    ELSE IF config.algo.tag \in {"Mandelbrot", "Julia"} THEN RGB_new(240, 170, 0)
    ELSE RGB_new(240, 240, 240)

----------------------------------------------------------------------------
(* Viewport mapping and the colorizer.                                      *)

coord_to_space(coord, max, offset, pos, scale) ==
    FAdd(FDiv(FSub(FDiv(coord, max), offset), scale), pos)

\* the horizontal axis normalised by the width: the mutant of the mapping
xy_to_imaginary_by_width(x, y, width, height, pos, scale) ==
    LET re == coord_to_space(F(x), width, <<1, 2>>, pos.re, scale.re)
        im == coord_to_space(F(y), height, <<1, 2>>, pos.im, scale.im)
    IN  Imaginary(re, im)

xy_to_imaginary(x, y, width, height, pos, scale) ==
    LET re == coord_to_space(F(x), height, FDiv(FDiv(width, height), F(2)),
                             pos.re, scale.re)
        im == coord_to_space(F(y), height, <<1, 2>>, pos.im, scale.im)
    IN  Imaginary(re, im)

color_multiply(color, mult) ==
    RGB_new(AsU8(FMul(F(color.r), mult)),
            AsU8(FMul(F(color.g), mult)),
            AsU8(FMul(F(color.b), mult)))

\* the evaluator called with the c of the algorithm for Mandelbrot too: the
\* mutant of the match on config.algo
escape_result_seed_only(config, start) ==
    IF config.algo.tag \in {"Mandelbrot", "Julia"}
    THEN recursive(iterations(config), start, config.algo.c, config.limit)
    ELSE "panic"

\* the evaluator call of get_recursive_pixel: c is the start point for
\* Mandelbrot and the seed for Julia; any other algorithm panics
escape_result(config, start) ==
    IF config.algo.tag = "Mandelbrot"
    THEN recursive(iterations(config), start, start, config.limit)
    ELSE IF config.algo.tag = "Julia"
    THEN recursive(iterations(config), start, config.algo.c, config.limit)
    ELSE "panic"

\* the color get_recursive_pixel gives to the escape result (mandelbrot, iters)
colorize(config, result) ==
    LET dist == squared_distance(result[1])
        log_zn == FDiv(FLog2(FSqrt(dist)), F(2))
        nu == FLog2(log_zn)
        iters == IF config.smooth
                 THEN FAdd(F(result[2]), FSub(F(1), nu))
                 ELSE F(result[2])
        mult == FMul(FDiv(iters, F(iterations(config))), config.exposure)
    IN  IF FGt(dist, config.stable_limit)
        THEN color_multiply(primary_color(config), mult)
        ELSE IF config.inside
        THEN color_multiply(secondary_color(config), dist)
        ELSE BLACK

get_recursive_pixel(config, x, y) ==
    LET start == xy_to_imaginary(x, y, F(config.width), F(config.height),
                                 config.pos, config.scale)
    IN  colorize(config, escape_result(config, start))

----------------------------------------------------------------------------
(* The evaluator on its own: Init draws the arguments, RecStep runs the     *)
(* loop of `recursive` one iteration at a time.                             *)

Idle == <<>>

\* start points: small integer points, and the far point (10, 10)
StartPoints ==
    {Imaginary(F(re), F(im)) : re \in {-2, -1, 0, 1}, im \in {-1, 0, 1}}
        \cup {Imaginary(F(10), F(10))}

\* constants c: integer and half-integer points, and the far point (10, 10)
CPoints ==
    {Imaginary(re, im) : re \in {F(-2), F(-1), Frac(-1, 2), F(0), Frac(1, 2)},
                         im \in {F(-1), F(0), Frac(1, 2)}}
        \cup {Imaginary(F(10), F(10))}

Limits == {<<1, 2>>, F(1), F(2), F(4)}

RecInit ==
    /\ rec \in {recursive_enter(n, start, c, limit) :
                    n \in 0..MaxIter, start \in StartPoints,
                    c \in CPoints, limit \in Limits}
    /\ pc = Idle /\ cfg = Idle /\ rows = Idle /\ image = Idle
    /\ buf = Idle /\ call = Idle /\ walk = Idle /\ eval = Idle /\ app = Idle

RecStep ==
    /\ rec # Idle
    /\ rec.pc = "loop"
    /\ rec' = recursive_step(rec)
    /\ UNCHANGED <<pc, cfg, rows, image, buf, call, walk, eval, app>>

RecNext == RecStep

SpecRec == RecInit /\ [][RecNext]_vars

----------------------------------------------------------------------------
(* The recurrence of the claims: z_0 = start, z_{k+1} = square(z_k) + c.    *)

RECURSIVE Z(_, _)
Z(s, k) == IF k = 0 THEN s.start ELSE add(square(Z(s, k - 1)), s.c)

\* the smallest step k < N with squared_distance(z_{k+1}) > limit * limit,
\* or N when there is none
RECURSIVE FirstEscapeFrom(_, _)
FirstEscapeFrom(s, k) ==
    IF k >= s.iterations THEN s.iterations
    ELSE IF FGt(squared_distance(Z(s, k + 1)), FMul(s.limit, s.limit)) THEN k
    ELSE FirstEscapeFrom(s, k + 1)

FirstEscape == FirstEscapeFrom(rec, 0)

\* C1: when some step k < N escapes, recursive returns (z_{i+1}, i) for the
\* smallest such step i, and evaluates no step after it (i + 1 steps in all).
C1_EscapeAtFirstStep ==
    (rec.pc = "done" /\ FirstEscape < rec.iterations)
        => /\ rec.ret = <<Z(rec, FirstEscape + 1), FirstEscape>>
           /\ rec.evaluated = FirstEscape + 1

\* an escape detected at the second step, and one that lands exactly on the limit
C1_Witness ==
    /\ rec.pc = "done"
    /\ rec.iterations >= 2
    /\ FirstEscape = 1
    /\ squared_distance(Z(rec, 1)) = FMul(rec.limit, rec.limit)

\* C2: when no step k < N escapes, recursive returns (z_N, N); and the
\* returned count is N only then: an escaped result carries a count below N.
C2_CapOnlyWhenBounded ==
    rec.pc = "done"
        => /\ (FirstEscape = rec.iterations
                  => rec.ret = <<Z(rec, rec.iterations), rec.iterations>>)
           /\ (rec.ret[2] = rec.iterations <=> FirstEscape = rec.iterations)
           /\ (FirstEscape < rec.iterations => rec.ret[2] < rec.iterations)

\* a run of the full cap that did not escape
C2_Witness ==
    /\ rec.pc = "done"
    /\ rec.iterations >= 2
    /\ rec.ret[2] = rec.iterations
    /\ rec.evaluated = rec.iterations
    /\ rec.start # ZERO

----------------------------------------------------------------------------
(* The Image buffer on its own: Init is the buffer get_image pre-fills for  *)
(* the fern, BufSubtract is one call of subtract_pixel on any target.       *)
(* `call` remembers the last call: its target, what pixel_mut gave, the     *)
(* contents before it, and the set of slots any call has been given.        *)

Fills == {RGB_new(240, 240, 240), RGB_new(240, 170, 0)}

BlendColors == {RGB_new(4, 100, 3)}

Amounts == {Frac(1, 100), F(1)}

prefill(fill, width, height) == [j \in 1..(width * height) |-> fill]

call_none(contents, fill) ==
    [n |-> 0, fx |-> F(0), fy |-> F(0), x |-> 0, y |-> 0, outcome |-> None,
     before |-> contents, touched |-> {}, fill |-> fill,
     value |-> BLACK, amount |-> F(0)]

\* the record of a call of subtract_pixel(x, y, ..) whose pixel_mut gave outcome
call_made(fx, fy, x, y, outcome, value, amount) ==
    [call EXCEPT !.n = call.n + 1, !.fx = fx, !.fy = fy, !.x = x, !.y = y,
                 !.outcome = outcome, !.before = buf.contents,
                 !.value = value, !.amount = amount,
                 !.touched = IF outcome.kind = "some"
                             THEN call.touched \cup {outcome.index}
                             ELSE call.touched]

BufInit ==
    /\ \E width \in 1..MaxDim, height \in 1..MaxDim, fill \in Fills :
          /\ buf = Image_new(prefill(fill, width, height), width, height)
          /\ call = call_none(prefill(fill, width, height), fill)
    /\ pc = Idle /\ rec = Idle /\ cfg = Idle /\ rows = Idle /\ image = Idle /\ walk = Idle
    /\ eval = Idle /\ app = Idle

BufSubtract ==
    /\ call.n < MaxCalls
    /\ call.outcome.kind # "panic"
    /\ \E x \in (0..(buf.width + 1)) \cup {USIZE_MAX},
          y \in (0..(buf.height + 1)) \cup {USIZE_MAX},
          value \in BlendColors, amount \in Amounts :
          \E outcome \in pixel_mut(buf, x, y) :
             /\ buf' = subtract_pixel(buf, outcome, value, amount)
             /\ call' = call_made(F(0), F(0), x, y, outcome, value, amount)
    /\ UNCHANGED <<pc, rec, cfg, rows, image, walk, eval, app>>

BufNext == BufSubtract

SpecBuf == BufInit /\ [][BufNext]_vars

\* C3: a blend-write at (x = width, y = 0) does not panic and leaves every
\* pixel of the buffer as it was.
C3_WriteAtWidthIsNoOp ==
    (call.n > 0 /\ call.x = buf.width /\ call.y = 0)
        => /\ call.outcome.kind # "panic"
           /\ buf.contents = call.before

\* C10: a blend-write whose target pixel_mut reports absent changes nothing; a
\* blend-write on a present target leaves every other slot as it was; and a
\* slot no call was given still holds the pre-fill.
C10_OnlyTheTargetChanges ==
    call.n > 0
        => /\ (call.outcome.kind = "none" => buf.contents = call.before)
           /\ (call.outcome.kind = "some"
                 => \A j \in 1..Len(buf.contents) :
                       j # call.outcome.index + 1 => buf.contents[j] = call.before[j])
           /\ Len(buf.contents) = Len(call.before)
           /\ \A j \in 1..Len(buf.contents) :
                 (j - 1) \notin call.touched => buf.contents[j] = call.fill

\* an absent target, after a present target was changed, in a buffer of several slots
C10_Witness ==
    /\ call.n = 2
    /\ call.outcome.kind = "none"
    /\ Len(buf.contents) >= 2
    /\ \E j \in call.touched : buf.contents[j + 1] # call.fill
    /\ \E j \in 1..Len(buf.contents) : (j - 1) \notin call.touched

\* C11: on a present target, blend_write sets each channel to
\* old * (1 / (((1/(color_ch/255) - 1) * amount) + 1)) cast to u8, each channel
\* from the same channel of the old pixel and of the blend color.
C11_BlendPerChannel ==
    (call.n > 0 /\ call.outcome.kind = "some")
        => LET old == call.before[call.outcome.index + 1]
               new == buf.contents[call.outcome.index + 1]
           IN  new = [r |-> blend_channel(old.r, call.value.r, call.amount),
                      g |-> blend_channel(old.g, call.value.g, call.amount),
                      b |-> blend_channel(old.b, call.value.b, call.amount)]

----------------------------------------------------------------------------
(* get_image.  GetImage dispatches on config.algo.  The escape-time arm     *)
(* maps the rows 0..height-1 in parallel: RowMap is the closure run by the  *)
(* worker of a row, under any interleaving, and Collect is flatten/collect. *)
(* Two calls of get_image with the same Config (Runs) are made one after    *)
(* the other so that their results can be compared: get_image returns only  *)
(* when its workers are joined.  The fern arm pre-fills the                 *)
(* buffer and runs `fern` on it, one loop iteration per FernIter.           *)

Runs == {1, 2}

Config(algo, width, height, cap, style, inside, smooth) ==
    [width |-> width, height |-> height, iterations |-> cap,
     limit |-> style.limit, stable_limit |-> style.stable_limit,
     pos |-> style.pos, scale |-> style.scale, exposure |-> style.exposure,
     inside |-> inside, smooth |-> smooth,
     primary_color |-> style.primary_color, secondary_color |-> <<>>,
     algo |-> algo, color_weight |-> style.color_weight]

\* viewports and colorings of the escape-time renders; with scale 1/6 the
\* points of images up to 3 x 3 are whole or half numbers
EscapeStyles ==
    {[pos |-> Imaginary(F(1), F(0)), scale |-> mul(ONE, <<1, 6>>), limit |-> F(2),
      stable_limit |-> F(2), exposure |-> F(2), primary_color |-> <<>>,
      color_weight |-> <<1, 100>>],
     [pos |-> Imaginary(<<1, 2>>, <<-1, 2>>), scale |-> mul(ONE, <<1, 6>>),
      limit |-> F(2), stable_limit |-> <<1, 2>>, exposure |-> <<1, 2>>,
      primary_color |-> <<RGB_new(255, 200, 10)>>, color_weight |-> <<1, 100>>],
     [pos |-> Imaginary(F(-1), F(1)), scale |-> mul(ONE, <<1, 6>>), limit |-> F(1),
      stable_limit |-> F(2), exposure |-> F(2), primary_color |-> <<>>,
      color_weight |-> <<1, 100>>]}

\* the algorithm and the style of each escape-time render
EscapeSetups ==
    LET style(k) == CHOOSE st \in EscapeStyles :
                        st.pos = <<Imaginary(F(1), F(0)),
                                   Imaginary(<<1, 2>>, <<-1, 2>>),
                                   Imaginary(F(-1), F(1))>>[k]
    IN  {<<Mandelbrot, style(1)>>, <<Mandelbrot, style(2)>>, <<Mandelbrot, style(3)>>,
         <<Julia(Imaginary(F(-1), F(0))), style(1)>>,
         <<Julia(Imaginary(F(0), <<1, 2>>)), style(2)>>}

EscapeConfigs ==
    {Config(setup[1], width, height, <<cap>>, setup[2], inside, smooth) :
        setup \in EscapeSetups, width \in 1..MaxDim, height \in 1..MaxDim,
        cap \in 0..MaxCap, inside \in BOOLEAN, smooth \in BOOLEAN}

\* framings of the fern: pos and scale
FernFrames ==
    {<<Imaginary(F(0), F(2)), Imaginary(F(1), F(1))>>,
     <<Imaginary(F(0), F(2)), Imaginary(F(4), F(1))>>,
     <<Imaginary(F(0), F(0)), Imaginary(F(1), F(1))>>,
     <<Imaginary(F(0), F(3)), Imaginary(F(5), <<1, 2>>)>>}

FernStyles ==
    {[pos |-> frame[1], scale |-> frame[2], limit |-> F(2), stable_limit |-> F(2),
      exposure |-> F(2), primary_color |-> <<>>, color_weight |-> weight] :
        frame \in FernFrames, weight \in {<<1, 100>>, F(1)}}

FernConfigs ==
    {Config(BarnsleyFern, width, height, <<cap>>, style, TRUE, TRUE) :
        width \in 1..MaxDim, height \in 1..MaxDim,
        cap \in 0..MaxFernIter, style \in FernStyles}

Init ==
    /\ cfg \in EscapeConfigs \cup FernConfigs
    /\ pc = "start"
    /\ rec = Idle /\ rows = Idle /\ image = Idle
    /\ buf = Idle /\ call = Idle /\ walk = Idle /\ eval = Idle /\ app = Idle

\* fern, up to the loop: the running point starts at pos * (width, height);
\* r is the draw of the last iteration (0 before the first)
fern_enter(config) ==
    [x |-> FMul(config.pos.re, F(config.width)),
     y |-> FMul(config.pos.im, F(config.height)),
     i |-> 0, r |-> F(0)]

\* get_image without the match on config.algo: every algorithm is rendered
\* by the rows of get_recursive_pixel, the mutant of the dispatch
GetImage_rows_only ==
    /\ pc = "start"
    /\ pc' = "rows"
    /\ rows' = [run \in Runs |->
                  [vecs |-> [y \in 0..(cfg.height - 1) |-> <<>>],
                   finished |-> <<>>]]
    /\ image' = [run \in Runs |-> [done |-> FALSE, data |-> <<>>]]
    /\ UNCHANGED <<buf, call, walk>>
    /\ UNCHANGED <<rec, cfg, eval, app>>

GetImage ==
    /\ pc = "start"
    /\ IF cfg.algo.tag \in {"Mandelbrot", "Julia"}
       THEN /\ pc' = "rows"
            /\ rows' = [run \in Runs |->
                          [vecs |-> [y \in 0..(cfg.height - 1) |-> <<>>],
                           finished |-> <<>>]]
            /\ image' = [run \in Runs |-> [done |-> FALSE, data |-> <<>>]]
            /\ UNCHANGED <<buf, call, walk>>
       ELSE /\ pc' = "fern"
            /\ buf' = Image_new(prefill(secondary_color(cfg), cfg.width, cfg.height),
                                cfg.width, cfg.height)
            /\ call' = call_none(prefill(secondary_color(cfg), cfg.width, cfg.height),
                                 secondary_color(cfg))
            /\ walk' = fern_enter(cfg)
            /\ image' = [run \in Runs |-> [done |-> FALSE, data |-> <<>>]]
            /\ UNCHANGED rows
    /\ UNCHANGED <<rec, cfg, eval, app>>

\* the row filled with the pixels (y, x): the mutant of the closure of `map`
RECURSIVE row_from_transposed(_, _, _)
row_from_transposed(config, y, x) ==
    IF x >= config.width THEN <<>>
    ELSE <<get_recursive_pixel(config, y, x)>> \o row_from_transposed(config, y, x + 1)

\* the closure of `map`: the row Vec of row y, filled by `for x in 0..config.width`
RECURSIVE row_from(_, _, _)
row_from(config, y, x) ==
    IF x >= config.width THEN <<>>
    ELSE <<get_recursive_pixel(config, x, y)>> \o row_from(config, y, x + 1)

\* the worker of row y builds its row; the Vec is its own until it is returned
RowMap(run, y) ==
    /\ pc = "rows"
    /\ \A earlier \in Runs : earlier < run => image[earlier].done
    /\ \A k \in 1..Len(rows[run].finished) : rows[run].finished[k] # y
    /\ rows' = [rows EXCEPT ![run].vecs[y] = row_from(cfg, y, 0),
                            ![run].finished = Append(@, y)]
    /\ UNCHANGED <<pc, rec, cfg, image, buf, call, walk, eval, app>>

\* the rows joined in the order their workers finished: the mutant of collect
RECURSIVE collect_as_finished(_, _)
collect_as_finished(r, y) ==
    IF y >= Len(r.finished) THEN <<>>
    ELSE r.vecs[r.finished[y + 1]] \o collect_as_finished(r, y + 1)

\* `.flatten().collect()`: the rows joined in the order of the range, from row y on
RECURSIVE collect(_, _)
collect(r, y) ==
    IF y >= Cardinality(DOMAIN r.vecs) THEN <<>>
    ELSE r.vecs[y] \o collect(r, y + 1)

\* every row is mapped: the rows are flattened and collected
Collect(run) ==
    /\ pc = "rows"
    /\ ~image[run].done
    /\ Len(rows[run].finished) = cfg.height
    /\ image' = [image EXCEPT ![run] = [done |-> TRUE, data |-> collect(rows[run], 0)]]
    /\ UNCHANGED <<pc, rec, cfg, rows, buf, call, walk, eval, app>>

Return ==
    /\ pc = "rows"
    /\ \A run \in Runs : image[run].done
    /\ pc' = "done"
    /\ UNCHANGED <<rec, cfg, rows, image, buf, call, walk, eval, app>>

\* the values the random draw r is taken from: the least value of the range
\* of each of the four maps (0 and the three thresholds)
Draws == {F(0), <<1, 100>>, <<43, 50>>, <<93, 100>>}

\* the maps with y computed from the new x: the mutant of the maps
fern_map_in_place(x, y, r) ==
    LET nx == IF FLt(r, <<1, 100>>) THEN F(0)
              ELSE IF FLt(r, <<43, 50>>)
              THEN FAdd(FMul(<<17, 20>>, x), FMul(<<1, 25>>, y))
              ELSE IF FLt(r, <<93, 100>>)
              THEN FSub(FMul(<<1, 5>>, x), FMul(<<13, 50>>, y))
              ELSE FAdd(FMul(<<-3, 20>>, x), FMul(<<7, 25>>, y))
        ny == IF FLt(r, <<1, 100>>) THEN FMul(<<4, 25>>, y)
              ELSE IF FLt(r, <<43, 50>>)
              THEN FAdd(FAdd(FMul(<<-1, 25>>, nx), FMul(<<17, 20>>, y)), <<8, 5>>)
              ELSE IF FLt(r, <<93, 100>>)
              THEN FAdd(FAdd(FMul(<<23, 100>>, nx), FMul(<<11, 50>>, y)), <<8, 5>>)
              ELSE FAdd(FAdd(FMul(<<13, 50>>, nx), FMul(<<6, 25>>, y)), <<11, 25>>)
    IN  <<nx, ny>>

\* the point the draw r maps (x, y) to
fern_map(x, y, r) ==
    IF FLt(r, <<1, 100>>)
    THEN <<FAdd(FMul(F(0), x), FMul(F(0), y)),
           FAdd(FAdd(FMul(F(0), x), FMul(<<4, 25>>, y)), F(0))>>
    ELSE IF FLt(r, <<43, 50>>)
    THEN <<FAdd(FMul(<<17, 20>>, x), FMul(<<1, 25>>, y)),
           FAdd(FAdd(FMul(<<-1, 25>>, x), FMul(<<17, 20>>, y)), <<8, 5>>)>>
    ELSE IF FLt(r, <<93, 100>>)
    THEN <<FSub(FMul(<<1, 5>>, x), FMul(<<13, 50>>, y)),
           FAdd(FAdd(FMul(<<23, 100>>, x), FMul(<<11, 50>>, y)), <<8, 5>>)>>
    ELSE <<FAdd(FMul(<<-3, 20>>, x), FMul(<<7, 25>>, y)),
           FAdd(FAdd(FMul(<<13, 50>>, x), FMul(<<6, 25>>, y)), <<11, 25>>)>>

\* the real-valued target of the blend-write of the running point (x, y)
fern_target(config, x, y) ==
    LET width == F(config.width)
        height == F(config.height)
        effective_scale_x ==
            FMul(FMul(FMul(F(65), config.scale.re), F(config.height)), <<3, 500>>)
        effective_scale_y ==
            FMul(FMul(FMul(F(37), config.scale.im), F(config.height)), <<3, 500>>)
    IN  <<FAdd(FMul(FSub(x, config.pos.re), effective_scale_x), FDiv(width, F(2))),
          FSub(height,
               FAdd(FMul(FSub(FAdd(y, FSub(config.pos.im, F(5))), <<1, 2>>),
                         effective_scale_y),
                    FDiv(height, F(2))))>>

\* the loop test `for _ in 0..=config.iterations()`: the mutant of the loop range
fern_continues_inclusive(config, w) == w.i <= iterations(config)

\* the loop test of `for _ in 0..config.iterations()`
fern_continues(config, w) == w.i < iterations(config)

\* one iteration of the loop of fern: the blend-write, then the draw and the map
FernIter ==
    /\ pc = "fern"
    /\ fern_continues(cfg, walk)
    /\ LET target == fern_target(cfg, walk.x, walk.y)
           x == AsUsize(target[1])
           y == AsUsize(target[2])
       IN  \E outcome \in pixel_mut(buf, x, y), r \in Draws :
              /\ buf' = subtract_pixel(buf, outcome, primary_color(cfg),
                                       cfg.color_weight)
              /\ call' = call_made(target[1], target[2], x, y, outcome,
                                       primary_color(cfg), cfg.color_weight)
              /\ IF outcome.kind = "panic"
                 THEN pc' = "panicked" /\ UNCHANGED walk
                 ELSE /\ pc' = pc
                      /\ walk' = [x |-> fern_map(walk.x, walk.y, r)[1],
                                  y |-> fern_map(walk.x, walk.y, r)[2],
                                  i |-> walk.i + 1, r |-> r]
    /\ UNCHANGED <<rec, cfg, rows, image, eval, app>>

\* the loop of fern is over: get_image returns the contents
FernReturn ==
    /\ pc = "fern"
    /\ ~fern_continues(cfg, walk)
    /\ pc' = "done"
    /\ image' = [image EXCEPT ![1] = [done |-> TRUE, data |-> buf.contents]]
    /\ UNCHANGED <<rec, cfg, rows, buf, call, walk, eval, app>>

Next ==
    \/ GetImage
    \/ \E run \in Runs, y \in 0..(cfg.height - 1) : RowMap(run, y)
    \/ \E run \in Runs : Collect(run)
    \/ Return
    \/ FernIter
    \/ FernReturn

Spec == Init /\ [][Next]_vars

----------------------------------------------------------------------------
(* Claims on get_image.                                                     *)

IsEscapeTime == cfg.algo.tag \in {"Mandelbrot", "Julia"}

IsFern == cfg.algo.tag = "BarnsleyFern"

Rendering == pc \in {"rows", "done"} /\ IsEscapeTime

\* the slot of pixel (x, y) in the buffer returned to run
slot(run, x, y) == image[run].data[y * cfg.width + x + 1]

\* the escape result of pixel (x, y): the final point and the iteration count
result_at(x, y) ==
    escape_result(cfg, xy_to_imaginary(x, y, F(cfg.width), F(cfg.height),
                                       cfg.pos, cfg.scale))

\* the color whose channels are those of color, each multiplied by mult and
\* cast to u8
scaled(color, mult) ==
    [r |-> AsU8(FMul(F(color.r), mult)),
     g |-> AsU8(FMul(F(color.g), mult)),
     b |-> AsU8(FMul(F(color.b), mult))]

C6_EverySlotItsPixel ==
    \A run \in Runs :
        (Rendering /\ image[run].done)
            => /\ Len(image[run].data) = cfg.width * cfg.height
               /\ \A x \in 0..(cfg.width - 1), y \in 0..(cfg.height - 1) :
                     slot(run, x, y) = get_recursive_pixel(cfg, x, y)
               /\ \A y \in 0..(cfg.height - 1) :
                     Cardinality({k \in 1..Len(rows[run].finished) :
                                     rows[run].finished[k] = y}) = 1

\* a collected image of two rows and two columns whose last row finished first
C6_Witness ==
    /\ Rendering /\ image[1].done
    /\ cfg.width >= 2 /\ cfg.height >= 2
    /\ rows[1].finished[1] = cfg.height - 1
    /\ slot(1, 1, 0) # slot(1, 0, 1)

\* C7: where the squared distance of the final point is not above
\* stable_limit, the pixel is secondary_color with each channel multiplied by
\* that distance when `inside` is set, and black when it is not.
C7_InsideColor ==
    (Rendering /\ image[1].done)
        => \A x \in 0..(cfg.width - 1), y \in 0..(cfg.height - 1) :
              LET dist == squared_distance(result_at(x, y)[1])
              IN  ~FGt(dist, cfg.stable_limit)
                     => slot(1, x, y) = IF cfg.inside
                                        THEN scaled(secondary_color(cfg), dist)
                                        ELSE BLACK

\* C8: where the squared distance is above stable_limit and smoothing is off,
\* the pixel is primary_color with each channel multiplied by
\* iters / N * exposure, truncated and kept in 0..255.
C8_OutsideColor ==
    (Rendering /\ image[1].done /\ ~cfg.smooth)
        => \A x \in 0..(cfg.width - 1), y \in 0..(cfg.height - 1) :
              LET dist == squared_distance(result_at(x, y)[1])
                  mult == FMul(FDiv(F(result_at(x, y)[2]), F(iterations(cfg))),
                               cfg.exposure)
              IN  FGt(dist, cfg.stable_limit)
                     => slot(1, x, y) = scaled(primary_color(cfg), mult)

\* the pixel a blend-write aims at, from its real-valued target, lies outside
\* 0..size-1 (a value between -1 and 0 is taken as pixel 0)
pixel_outside(f, size) ==
    /\ ~IsNaN(f)
    /\ (f[2] = 0 \/ Trunc(f) < 0 \/ Trunc(f) >= size)

\* C4: an iteration of the fern whose target lies outside the frame changes
\* no pixel and does not panic.
C4_OutsideTargetsAreSkipped ==
    (pc \in {"fern", "done", "panicked"} /\ IsFern /\ call.n > 0
        /\ (pixel_outside(call.fx, cfg.width) \/ pixel_outside(call.fy, cfg.height)))
        => /\ call.outcome.kind # "panic"
           /\ buf.contents = call.before

\* C9: a fern render with an iteration cap of 0 makes no blend-write and
\* returns a buffer whose every pixel is secondary_color.
C9_ZeroCapLeavesPrefill ==
    (pc = "done" /\ IsFern /\ iterations(cfg) = 0)
        => /\ call.n = 0
           /\ image[1].done
           /\ Len(image[1].data) = cfg.width * cfg.height
           /\ \A j \in 1..Len(image[1].data) : image[1].data[j] = secondary_color(cfg)

\* a fern render of cap 0 that returned a buffer of several pixels
C9_Witness ==
    /\ pc = "done" /\ IsFern
    /\ cfg.iterations = <<0>>
    /\ image[1].done
    /\ Len(image[1].data) >= 2

\* the point (a*x + b*y, c*x + d*y + e) for the coefficients m = <<a, b, c, d, e>>
affine(m, x, y) ==
    <<FAdd(FMul(m[1], x), FMul(m[2], y)),
      FAdd(FAdd(FMul(m[3], x), FMul(m[4], y)), m[5])>>

\* C12: in each iteration of the fern the draw r selects one map, A below
\* 0.01, B from 0.01 and below 0.86, C from 0.86 and below 0.93, D from 0.93,
\* and the new point is (a*x + b*y, c*x + d*y + e) of the old x and the old y
\* with the coefficients of that map.
C12_OneMapPerDraw ==
    [][(pc = "fern" /\ walk'.i = walk.i + 1)
          => LET r == walk'.r
                 A == <<F(0), F(0), F(0), <<4, 25>>, F(0)>>
                 B == <<<<17, 20>>, <<1, 25>>, <<-1, 25>>, <<17, 20>>, <<8, 5>>>>
                 C == <<<<1, 5>>, <<-13, 50>>, <<23, 100>>, <<11, 50>>, <<8, 5>>>>
                 D == <<<<-3, 20>>, <<7, 25>>, <<13, 50>>, <<6, 25>>, <<11, 25>>>>
                 new == <<walk'.x, walk'.y>>
             IN  /\ FLt(r, <<1, 100>>) => new = affine(A, walk.x, walk.y)
                 /\ (~FLt(r, <<1, 100>>) /\ FLt(r, <<43, 50>>))
                        => new = affine(B, walk.x, walk.y)
                 /\ (~FLt(r, <<43, 50>>) /\ FLt(r, <<93, 100>>))
                        => new = affine(C, walk.x, walk.y)
                 /\ ~FLt(r, <<93, 100>>) => new = affine(D, walk.x, walk.y)]_vars

\* a walk of two iterations whose last draw was the threshold 0.86 and whose
\* third map gave a point off the axis x = 0
C12_Witness ==
    /\ IsFern /\ pc \in {"fern", "done"}
    /\ walk.i >= 2
    /\ walk.r = <<43, 50>>
    /\ walk.x # F(0) /\ walk.y # <<8, 5>>

\* the start point of pixel (x, y) under the configuration of the render
start_of(x, y) ==
    xy_to_imaginary(x, y, F(cfg.width), F(cfg.height), cfg.pos, cfg.scale)

\* C13: every pixel of a Mandelbrot render has the color that pixel has in the
\* Julia render whose seed is the start point of the pixel, the rest of the
\* configuration being the same.
C13_MandelbrotIsJuliaOfStart ==
    (Rendering /\ cfg.algo.tag = "Mandelbrot" /\ pc = "done")
        => \A x \in 0..(cfg.width - 1), y \in 0..(cfg.height - 1) :
              slot(1, x, y) =
                  get_recursive_pixel([cfg EXCEPT !.algo = Julia(start_of(x, y))], x, y)

\* a finished Mandelbrot render of several colors, with a pixel that the Julia
\* render of seed (0, 0) colors differently
C13_Witness ==
    /\ Rendering /\ cfg.algo.tag = "Mandelbrot" /\ image[1].done
    /\ \E j, k \in 1..Len(image[1].data) : image[1].data[j] # image[1].data[k]
    /\ \E x \in 0..(cfg.width - 1), y \in 0..(cfg.height - 1) :
          slot(1, x, y) # get_recursive_pixel([cfg EXCEPT !.algo = Julia(ZERO)], x, y)

\* C14: from start (0, 0) with c = (0, 0), whatever the cap N and the positive
\* limit, recursive does not escape and returns the count N (and the origin).
C14_OriginNeverEscapes ==
    (rec # Idle /\ rec.pc = "done" /\ rec.start = ZERO /\ rec.c = ZERO
        /\ FGt(rec.limit, F(0)))
        => /\ rec.ret = <<ZERO, rec.iterations>>
           /\ rec.evaluated = rec.iterations

\* the origin run to the largest cap under the smallest limit
C14_Witness ==
    /\ rec # Idle /\ rec.pc = "done"
    /\ rec.start = ZERO /\ rec.c = ZERO
    /\ rec.limit = <<1, 2>>
    /\ rec.iterations = MaxIter /\ rec.evaluated = MaxIter

\* C15: from start (10, 10) with c = start and limit 4, whatever the cap
\* N >= 1, recursive escapes at iteration 0: it returns the count 0 and the
\* first iterate square(start) + c = (10, 210).
C15_FarPointEscapesAtOnce ==
    (rec # Idle /\ rec.pc = "done"
        /\ rec.start = Imaginary(F(10), F(10)) /\ rec.c = rec.start
        /\ rec.limit = F(4) /\ rec.iterations >= 1)
        => /\ rec.ret = <<Imaginary(F(10), F(210)), 0>>
           /\ rec.ret[1] = Z(rec, 1)
           /\ rec.evaluated = 1

\* the far point run under a cap above 1
C15_Witness ==
    /\ rec # Idle /\ rec.pc = "done"
    /\ rec.start = Imaginary(F(10), F(10)) /\ rec.c = rec.start
    /\ rec.limit = F(4) /\ rec.iterations = MaxIter
    /\ rec.ret[2] = 0

----------------------------------------------------------------------------
(* The pure functions, each applied once to arguments drawn in EvalInit:    *)
(* the Imaginary operations, the viewport mapping and the accessors of      *)
(* Config.  eval.given keeps the arguments as they were passed.             *)

\* components of the points: finite values, the infinities and NaN
Components == {F(-2), <<-1, 2>>, F(0), F(1), <<3, 2>>, <<1, 0>>, <<-1, 0>>, NaN}

EvalPoints == {Imaginary(re, im) : re \in Components, im \in Components}

\* right-hand sides of `+`
Addends == {ZERO, Imaginary(F(1), <<-1, 2>>), Imaginary(<<1, 0>>, F(3))}

\* right-hand sides of `* f64`
Factors == {F(0), F(-1), <<2, 5>>, <<1, 0>>}

\* pan offsets and zoom factors of the viewports mapped
ViewPositions == {ZERO, Imaginary(F(1), <<-1, 2>>), Imaginary(<<-3, 2>>, F(2))}

ViewScales ==
    {mul(ONE, <<1, 6>>), mul(ONE, <<2, 5>>), Imaginary(F(2), <<1, 2>>),
     Imaginary(F(-1), F(3))}

\* the calls of xy_to_imaginary: every grid point 0..width x 0..height
MapCalls ==
    {[x |-> x, y |-> y, width |-> width, height |-> height,
      pos |-> pos, scale |-> scale] :
        x \in 0..(2 * MaxDim), y \in 0..(2 * MaxDim),
        width \in 1..(2 * MaxDim), height \in 1..(2 * MaxDim),
        pos \in ViewPositions, scale \in ViewScales}

\* configurations with and without explicit cap and colors
AccessorConfigs ==
    {[Config(algo, 2000, 1000, cap, CHOOSE st \in EscapeStyles : st.limit = F(1),
             TRUE, TRUE)
        EXCEPT !.primary_color = primary, !.secondary_color = secondary] :
        algo \in {Mandelbrot, Julia(ZERO), Julia(Imaginary(<<1, 2>>, F(-1))),
                  BarnsleyFern},
        cap \in {<<>>} \cup {<<n>> : n \in {0, 7, 50, 10000000}},
        primary \in {<<>>, <<RGB_new(1, 2, 3)>>, <<RGB_new(40, 40, 255)>>},
        secondary \in {<<>>, <<RGB_new(9, 8, 7)>>}}

\* u32 and usize values as little-endian bytes, so that every 32-bit value
\* and every product of two has a representation
U32(n) == <<n % 256, (n \div 256) % 256, (n \div 65536) % 256, n \div 16777216>>

U32_MAX == <<255, 255, 255, 255>>

\* the byte k of a, 0 beyond its length
byte_at(a, k) == IF k + 1 <= Len(a) THEN a[k + 1] ELSE 0

\* the sum of the byte products of column k of the long multiplication
RECURSIVE column(_, _, _, _)
column(a, b, k, j) ==
    IF j > k THEN 0 ELSE byte_at(a, j) * byte_at(b, k - j) + column(a, b, k, j + 1)

\* the bytes k.. of the product of a and b, given the carry into column k
RECURSIVE product_from(_, _, _, _)
product_from(a, b, k, carry) ==
    IF k = Len(a) + Len(b) THEN <<>>
    ELSE <<(column(a, b, k, 0) + carry) % 256>>
            \o product_from(a, b, k + 1, (column(a, b, k, 0) + carry) \div 256)

\* the mathematical product of a and b, on Len(a) + Len(b) bytes
product(a, b) == product_from(a, b, 0, 0)

Allocated(len) == [kind |-> "allocated", len |-> len]

Overflowed == [kind |-> "panic", len |-> <<>>]

\* `(config.width * config.height) as usize`: the product is taken in u32 and
\* then zero-extended.  A product of more than 32 bits panics in a build with
\* overflow checks and keeps its low 32 bits in a build without
buffer_len(width, height) ==
    LET wide == product(width, height)
        low == SubSeq(wide, 1, 4)
    IN  IF SubSeq(wide, 5, 8) = <<0, 0, 0, 0>>
        THEN {Allocated(low \o <<0, 0, 0, 0>>)}
        ELSE {Overflowed, Allocated(low \o <<0, 0, 0, 0>>)}

\* widths and heights: small ones, the defaults, 2^16 and its neighbours,
\* and u32::MAX
Dimensions ==
    {U32(n) : n \in {0, 1, 2, 3, 255, 256, 1000, 2000, 65535, 65536, 65537, 16777216}}
        \cup {U32_MAX}

eval_enter(op, args) ==
    [op |-> op, args |-> args, given |-> args, pc |-> "ready", result |-> <<>>]

EvalInit ==
    /\ \/ \E p \in EvalPoints : eval = eval_enter("square", [p |-> p])
       \/ \E p \in EvalPoints : eval = eval_enter("squared_distance", [p |-> p])
       \/ \E p \in EvalPoints, q \in Addends :
             eval = eval_enter("add", [p |-> p, rhs |-> q])
       \/ \E p \in EvalPoints, k \in Factors :
             eval = eval_enter("mul", [p |-> p, rhs |-> k])
       \/ \E m \in MapCalls :
             m.x <= m.width /\ m.y <= m.height
                /\ eval = eval_enter("xy_to_imaginary", m)
       \/ \E config \in AccessorConfigs :
             eval = eval_enter("accessors", [config |-> config])
       \/ \E width \in Dimensions, height \in Dimensions :
             eval = eval_enter("buffer_len", [width |-> width, height |-> height])
       \/ \E config \in EscapeConfigs :
             \E x \in 0..(config.width - 1), y \in 0..(config.height - 1) :
                eval = eval_enter("get_recursive_pixel",
                                  [config |-> config, x |-> x, y |-> y])
    /\ pc = Idle /\ rec = Idle /\ cfg = Idle /\ rows = Idle /\ image = Idle
    /\ buf = Idle /\ call = Idle /\ walk = Idle /\ app = Idle

\* the result is returned; the arguments were passed by value
eval_return(result) == [eval EXCEPT !.pc = "done", !.result = result]

EvalSquare ==
    /\ eval.pc = "ready" /\ eval.op = "square"
    /\ eval' = eval_return(square(eval.args.p))
    /\ UNCHANGED <<pc, rec, cfg, rows, image, buf, call, walk, app>>

EvalSquaredDistance ==
    /\ eval.pc = "ready" /\ eval.op = "squared_distance"
    /\ eval' = eval_return(squared_distance(eval.args.p))
    /\ UNCHANGED <<pc, rec, cfg, rows, image, buf, call, walk, app>>

EvalAdd ==
    /\ eval.pc = "ready" /\ eval.op = "add"
    /\ eval' = eval_return(add(eval.args.p, eval.args.rhs))
    /\ UNCHANGED <<pc, rec, cfg, rows, image, buf, call, walk, app>>

EvalMul ==
    /\ eval.pc = "ready" /\ eval.op = "mul"
    /\ eval' = eval_return(mul(eval.args.p, eval.args.rhs))
    /\ UNCHANGED <<pc, rec, cfg, rows, image, buf, call, walk, app>>

EvalMap ==
    /\ eval.pc = "ready" /\ eval.op = "xy_to_imaginary"
    /\ LET m == eval.args
       IN  eval' = eval_return(xy_to_imaginary(m.x, m.y, F(m.width), F(m.height),
                                               m.pos, m.scale))
    /\ UNCHANGED <<pc, rec, cfg, rows, image, buf, call, walk, app>>

\* the cap and the colors a render of config reads
EvalAccessors ==
    /\ eval.pc = "ready" /\ eval.op = "accessors"
    /\ eval' = eval_return([iterations |-> iterations(eval.args.config),
                            primary_color |-> primary_color(eval.args.config),
                            secondary_color |-> secondary_color(eval.args.config)])
    /\ UNCHANGED <<pc, rec, cfg, rows, image, buf, call, walk, app>>

\* the allocation of the fern buffer: the length the build computes
EvalBufferLen ==
    /\ eval.pc = "ready" /\ eval.op = "buffer_len"
    /\ \E outcome \in buffer_len(eval.args.width, eval.args.height) :
          eval' = eval_return(outcome)
    /\ UNCHANGED <<pc, rec, cfg, rows, image, buf, call, walk, app>>

\* the branch of get_recursive_pixel that colors the escape result
branch_of(config, result) ==
    IF FGt(squared_distance(result[1]), config.stable_limit) THEN "outside"
    ELSE IF config.inside THEN "inside"
    ELSE "black"

\* get_recursive_pixel(config, x, y): the escape result, the branch and the color
EvalPixel ==
    /\ eval.pc = "ready" /\ eval.op = "get_recursive_pixel"
    /\ \E start \in {xy_to_imaginary(eval.args.x, eval.args.y,
                                      F(eval.args.config.width),
                                      F(eval.args.config.height),
                                      eval.args.config.pos, eval.args.config.scale)} :
          \E result \in {escape_result(eval.args.config, start)} :
             eval' = eval_return([escape |-> result,
                                  branch |-> branch_of(eval.args.config, result),
                                  color |-> colorize(eval.args.config, result)])
    /\ UNCHANGED <<pc, rec, cfg, rows, image, buf, call, walk, app>>

EvalNext ==
    \/ EvalSquare \/ EvalSquaredDistance \/ EvalAdd \/ EvalMul
    \/ EvalMap \/ EvalAccessors \/ EvalBufferLen \/ EvalPixel

SpecEval == EvalInit /\ [][EvalNext]_vars

\* a >= b on f64: false when either is NaN
FGe(a, b) == ~IsNaN(a) /\ ~IsNaN(b) /\ ~FLt(a, b)

\* the results the claim gives to square and squared_distance, and the
\* operands left as they were passed
imaginary_identities ==
    LET p == eval.given.p
    IN  /\ eval.args = eval.given
        /\ eval.op = "square"
              => eval.result = Imaginary(FSub(FMul(p.re, p.re), FMul(p.im, p.im)),
                                         FMul(FMul(F(2), p.re), p.im))
        /\ eval.op = "squared_distance"
              => eval.result = FAdd(FMul(p.re, p.re), FMul(p.im, p.im))

ImaginaryOps == {"square", "squared_distance", "add", "mul"}

\* C20 as stated: for every point p = (re, im), square(p) is
\* (re*re - im*im, 2*re*im), squared_distance(p) is re*re + im*im and is >= 0,
\* and square, add and the scalar multiply leave their operands unchanged.
C20_ImaginaryIdentities ==
    (eval # Idle /\ eval.pc = "done" /\ eval.op \in ImaginaryOps)
        => /\ imaginary_identities
           /\ eval.op = "squared_distance" => FGe(eval.result, F(0))

\* C20 as amended: the same, with squared_distance(p) >= 0 for the points of
\* which no component is NaN; with a NaN component the squared distance is NaN.
C20_ImaginaryIdentitiesBarNaN ==
    (eval # Idle /\ eval.pc = "done" /\ eval.op \in ImaginaryOps)
        => /\ imaginary_identities
           /\ eval.op = "squared_distance"
                 => IF IsNaN(eval.given.p.re) \/ IsNaN(eval.given.p.im)
                    THEN IsNaN(eval.result)
                    ELSE FGe(eval.result, F(0))

\* the squared distance of (3/2, -2), which is 25/4
C20_Witness ==
    /\ eval # Idle /\ eval.pc = "done" /\ eval.op = "squared_distance"
    /\ eval.given.p = Imaginary(<<3, 2>>, F(-2))
    /\ eval.result = <<25, 4>>

\* C18: the viewport mapping normalises both axes by the height H:
\* re = ((x/H) - (W/H)/2)/scale.re + pos.re, im = ((y/H) - 0.5)/scale.im + pos.im;
\* the pixel (W/2, H/2) maps to the pan offset, and the re-difference between
\* the pixels (W, 0) and (0, 0) is (W/H)/scale.re.  The viewports are those of
\* finite pan offset and finite non-zero zoom.
C18_ViewportByHeight ==
    (eval # Idle /\ eval.pc = "done" /\ eval.op = "xy_to_imaginary")
        => LET m == eval.given
               W == F(m.width)
               H == F(m.height)
               origin == xy_to_imaginary(0, 0, W, H, m.pos, m.scale)
           IN  /\ eval.result.re =
                     FAdd(FDiv(FSub(FDiv(F(m.x), H), FDiv(FDiv(W, H), F(2))),
                               m.scale.re), m.pos.re)
               /\ eval.result.im =
                     FAdd(FDiv(FSub(FDiv(F(m.y), H), <<1, 2>>), m.scale.im), m.pos.im)
               /\ (2 * m.x = m.width /\ 2 * m.y = m.height) => eval.result = m.pos
               /\ (m.x = m.width /\ m.y = 0)
                     => FSub(eval.result.re, origin.re) = FDiv(FDiv(W, H), m.scale.re)

\* the centre pixel of a frame wider than high, under a zoom that differs
\* between the axes and a non-zero pan offset
C18_Witness ==
    /\ eval # Idle /\ eval.pc = "done" /\ eval.op = "xy_to_imaginary"
    /\ eval.given.width > eval.given.height
    /\ 2 * eval.given.x = eval.given.width /\ 2 * eval.given.y = eval.given.height
    /\ eval.given.scale.re # eval.given.scale.im
    /\ eval.given.pos # ZERO
    /\ eval.result = eval.given.pos

----------------------------------------------------------------------------
(* The calc crate (src/calc/src/lib.rs): the evaluator and colorizer of the *)
(* alternate backend.  Its Config holds the cap and the colors themselves,  *)
(* its Algo has no payload (a tag), the Julia seed is the field julia_set,  *)
(* and InnerConfig holds every number as f64.                               *)

\* calc RGB::new(r, b, g): the parameters are named as in the main crate
calc_RGB_new(r, b, g) == [r |-> r, g |-> g, b |-> b]

\* calc RGBF::new(r, b, g), on f64 channels
calc_RGBF_new(r, b, g) == [r |-> r, g |-> g, b |-> b]

\* calc Config::new(algo)
calc_Config_new(algo) ==
    [width |-> 2000, height |-> 1000,
     iterations |-> IF algo = "BarnsleyFern" THEN 10000000 ELSE 50,
     limit |-> F(4), stable_limit |-> F(2),
     pos |-> ZERO, scale |-> mul(ONE, <<2, 5>>),
     exposure |-> F(2), inside |-> TRUE, smooth |-> TRUE,
     primary_color |-> IF algo = "BarnsleyFern" THEN calc_RGB_new(4, 100, 3)
                       ELSE calc_RGB_new(40, 40, 255),
     secondary_color |-> IF algo = "BarnsleyFern" THEN calc_RGB_new(240, 240, 240)
                         ELSE calc_RGB_new(240, 170, 0),
     color_weight |-> <<1, 100>>, julia_set |-> ZERO, algo |-> algo]

\* From<Config> for InnerConfig
calc_InnerConfig_from(c) ==
    [algo |-> c.algo, width |-> F(c.width), height |-> F(c.height),
     iterations |-> F(c.iterations), limit |-> c.limit,
     stable_limit |-> c.stable_limit, pos |-> c.pos, scale |-> c.scale,
     exposure |-> c.exposure,
     inside |-> IF c.inside THEN F(1) ELSE F(0),
     smooth |-> IF c.smooth THEN F(1) ELSE F(0),
     primary_color |-> calc_RGBF_new(F(c.primary_color.r), F(c.primary_color.g),
                                     F(c.primary_color.b)),
     secondary_color |-> calc_RGBF_new(F(c.secondary_color.r), F(c.secondary_color.g),
                                       F(c.secondary_color.b)),
     color_weight |-> c.color_weight, julia_set |-> c.julia_set]

\* InnerConfig::inside and InnerConfig::smooth
calc_inside(config) == FGt(config.inside, <<1, 2>>)
calc_smooth(config) == FGt(config.smooth, <<1, 2>>)

\* Mul<f64> for RGBF
calc_RGBF_mul(rgb, mult) ==
    calc_RGBF_new(FMul(rgb.r, mult), FMul(rgb.g, mult), FMul(rgb.b, mult))

\* From<RGBF> for RGB
calc_RGB_from(rgb) == calc_RGB_new(AsU8(rgb.r), AsU8(rgb.g), AsU8(rgb.b))

\* calc xy_to_imaginary: x and y are f64
calc_xy_to_imaginary(x, y, width, height, pos, scale) ==
    LET re == coord_to_space(x, height, FDiv(FDiv(width, height), F(2)),
                             pos.re, scale.re)
        im == coord_to_space(y, height, <<1, 2>>, pos.im, scale.im)
    IN  Imaginary(re, im)

\* calc recursive, up to the loop: the counter i is an f64
calc_recursive_enter(cap, start, c, limit) ==
    [iterations |-> cap, start |-> start, c |-> c, limit |-> limit,
     previous |-> start, i |-> F(0), pc |-> "loop", ret |-> <<>>]

\* the loop run as `while i <= iterations`: the mutant of the loop test
calc_recursive_step_inclusive(s) ==
    LET squared == FMul(s.limit, s.limit)
        next == add(square(s.previous), s.c)
        dist == squared_distance(next)
    IN  IF FLt(s.i, s.iterations) \/ s.i = s.iterations
        THEN IF FGt(dist, squared)
             THEN [s EXCEPT !.pc = "done", !.ret = <<next, s.i>>]
             ELSE [s EXCEPT !.previous = next, !.i = FAdd(s.i, F(1))]
        ELSE [s EXCEPT !.pc = "done", !.ret = <<s.previous, s.iterations>>]

\* one pass through `while i < iterations { ... }`, or the return after it
calc_recursive_step(s) ==
    LET squared == FMul(s.limit, s.limit)
        next == add(square(s.previous), s.c)
        dist == squared_distance(next)
    IN  IF FLt(s.i, s.iterations)
        THEN IF FGt(dist, squared)
             THEN [s EXCEPT !.pc = "done", !.ret = <<next, s.i>>]
             ELSE [s EXCEPT !.previous = next, !.i = FAdd(s.i, F(1))]
        ELSE [s EXCEPT !.pc = "done", !.ret = <<s.previous, s.iterations>>]

RECURSIVE calc_recursive_run(_)
calc_recursive_run(s) ==
    IF s.pc = "done" THEN s.ret ELSE calc_recursive_run(calc_recursive_step(s))

\* calc recursive(iterations, start, c, limit) -> (Imaginary, f64); cap is
\* its parameter `iterations`
calc_recursive(cap, start, c, limit) ==
    calc_recursive_run(calc_recursive_enter(cap, start, c, limit))

\* calc get_recursive_pixel(config, x, y) -> RGBF
calc_get_recursive_pixel(config, x, y) ==
    LET start == calc_xy_to_imaginary(x, y, config.width, config.height,
                                      config.pos, config.scale)
        result == IF config.algo = "Mandelbrot"
                  THEN calc_recursive(config.iterations, start, start, config.limit)
                  ELSE calc_recursive(config.iterations, start, config.julia_set,
                                      config.limit)
        dist == squared_distance(result[1])
        log_zn == FDiv(FLog2(FSqrt(dist)), F(2))
        nu == FLog2(log_zn)
        iters == IF calc_smooth(config)
                 THEN FSub(FAdd(result[2], F(1)), nu)
                 ELSE result[2]
        mult == FMul(FDiv(iters, config.iterations), config.exposure)
    IN  IF config.algo \notin {"Mandelbrot", "Julia"}
        THEN calc_RGBF_new(F(0), F(0), F(0))
        ELSE IF FGt(dist, config.stable_limit)
        THEN calc_RGBF_mul(config.primary_color, mult)
        ELSE IF calc_inside(config)
        THEN calc_RGBF_mul(config.secondary_color, dist)
        ELSE calc_RGBF_new(F(0), F(0), F(0))

\* C19: the cap a render uses is the configured one when one is set, and
\* otherwise 50 for Mandelbrot and Julia and 10,000,000 for the fern; the
\* colors follow the same rule, the defaults being those of the algorithm
\* (the ones calc Config::new gives it, as is the default cap).
C19_CapAndColorDefaults ==
    (eval # Idle /\ eval.pc = "done" /\ eval.op = "accessors")
        => LET config == eval.given.config
               new == calc_Config_new(config.algo.tag)
           IN  /\ eval.result.iterations =
                     IF config.iterations # <<>> THEN config.iterations[1]
                     ELSE IF config.algo.tag \in {"Mandelbrot", "Julia"} THEN 50
                     ELSE 10000000
               /\ config.iterations = <<>> => eval.result.iterations = new.iterations
               /\ eval.result.primary_color =
                     IF config.primary_color # <<>> THEN config.primary_color[1]
                     ELSE new.primary_color
               /\ eval.result.secondary_color =
                     IF config.secondary_color # <<>> THEN config.secondary_color[1]
                     ELSE new.secondary_color

\* a fern configuration without a cap and with a primary color of its own
C19_Witness ==
    /\ eval # Idle /\ eval.pc = "done" /\ eval.op = "accessors"
    /\ eval.given.config.algo = BarnsleyFern
    /\ eval.given.config.iterations = <<>>
    /\ eval.given.config.primary_color # <<>>
    /\ eval.given.config.secondary_color = <<>>
    /\ eval.result.iterations = 10000000
    /\ eval.result.primary_color # calc_Config_new("BarnsleyFern").primary_color

\* the configuration of the render in the form of the calc crate: the same
\* size, cap, limits, viewport, exposure, flags, colors and seed
calc_Config_of(config) ==
    [calc_Config_new(config.algo.tag) EXCEPT
        !.width = config.width, !.height = config.height,
        !.iterations = iterations(config),
        !.limit = config.limit, !.stable_limit = config.stable_limit,
        !.pos = config.pos, !.scale = config.scale,
        !.exposure = config.exposure,
        !.inside = config.inside, !.smooth = config.smooth,
        !.primary_color = primary_color(config),
        !.secondary_color = secondary_color(config),
        !.color_weight = config.color_weight,
        !.julia_set = config.algo.c]

----------------------------------------------------------------------------
(* The GUI (src/src/gui.rs).  app is the App with its render thread:        *)
(*   state, gui_on, texture, try_redraw   fields of App, of the GUI thread  *)
(*   working, image, channel              shared with the render thread     *)
(*   worker                               the render thread: pc and request *)
(*   up                                   the call of App::update under way *)
(*   edits                                frames that changed the state     *)
(* An image is known by the size of the render it holds.  App::update is    *)
(* cut at its accesses to the shared fields, where the render thread can    *)
(* run in between.                                                          *)

\* Config::default()
Config_default ==
    [width |-> 2000, height |-> 1000, iterations |-> <<>>,
     limit |-> F(65536), stable_limit |-> F(2),
     pos |-> ZERO, scale |-> mul(ONE, <<2, 5>>), exposure |-> F(2),
     inside |-> TRUE, smooth |-> TRUE,
     primary_color |-> <<>>, secondary_color |-> <<>>,
     filename |-> "output.avif", open |-> FALSE,
     algo |-> Mandelbrot, color_weight |-> <<1, 100>>, gui |-> FALSE]

\* `!self.eq(other)` alone: the mutant of Algo::is_different
is_different_by_value(self, other) == self # other

\* Algo::is_different
is_different(self, other) ==
    IF self.tag = "Julia" /\ other.tag = "Julia" THEN FALSE ELSE self # other

\* a finite mag > 0 with exponent e, rounded to 24 significant bits, ties to
\* even; k is 2^|23 - e|
round_mantissa(mag, e, k) ==
    LET shifted == IF e <= 23 THEN FMul(mag, F(k)) ELSE FDiv(mag, F(k))
        low == shifted[1] \div shifted[2]
        rest == <<shifted[1] % shifted[2], shifted[2]>>
        m == IF FGt(rest, <<1, 2>>) \/ (rest = <<1, 2>> /\ low % 2 = 1)
             THEN low + 1 ELSE low
    IN  IF e <= 23 THEN FDiv(F(m), F(k)) ELSE FMul(F(m), F(k))

round_at(mag, e) ==
    CHOOSE r \in {round_mantissa(mag, e, k) : k \in {Pow2(Abs(23 - e))}} : TRUE

round_magnitude(mag) ==
    CHOOSE r \in {round_at(w, e) : w \in {mag}, e \in {Exponent(mag, 0)}} : TRUE

\* `as f32` and back `as f64`: the value rounded to 24 significant bits, ties
\* to even
AsF32(a) ==
    IF IsNaN(a) \/ a[2] = 0 \/ a[1] = 0 THEN a
    ELSE CHOOSE r \in {<<Sign(a[1]) * m[1], m[2]>> :
                          m \in {round_magnitude(<<Abs(a[1]), a[2]>>)}} : TRUE

\* the state of the render thread between two requests
worker_idle == [pc |-> "recv", config |-> <<>>]

\* no call of App::update is under way
update_idle ==
    [pc |-> "idle", then |-> "end", previous_state |-> <<>>, edited |-> <<>>,
     redraw |-> "none"]

\* App::new()
App_new ==
    [state |-> Config_default, gui_on |-> TRUE, image |-> <<>>, texture |-> <<>>,
     working |-> FALSE, try_redraw |-> FALSE, channel |-> <<>>,
     worker |-> worker_idle, up |-> update_idle, edits |-> 0]

\* what the user does during one frame: the key M, a click in the combo box
\* (and whether the combo box reports a change), and one control or key
Edits == {"none", "width", "iterations", "seed", "inside", "left", "scroll"}

Inputs ==
    {[m |-> m, select |-> select, changed |-> changed, edit |-> edit] :
        m \in BOOLEAN, select \in {"none", "Mandelbrot", "Julia", "BarnsleyFern"},
        changed \in BOOLEAN, edit \in Edits}

\* the values typed into the width and the iterations fields, the point the
\* seed is dragged to, predicted_dt and the scroll delta
TypedWidths == {100}
TypedCaps == {7}
DraggedSeed == Imaginary(<<1, 2>>, <<-1, 4>>)
PredictedDt == <<1, 60>>
ScrollDelta == F(80)

\* the combo box: a click selects a variant, and a reported change resets
\* the iteration cap and the view
combo_box(state, input) ==
    IF input.select = "none" THEN state
    ELSE [state EXCEPT
            !.algo = IF input.select = "Mandelbrot" THEN Mandelbrot
                     ELSE IF input.select = "Julia" THEN Julia(ZERO)
                     ELSE BarnsleyFern,
            !.iterations = IF input.changed THEN <<>> ELSE @,
            !.pos = IF input.changed THEN ZERO ELSE @,
            !.scale = IF input.changed THEN mul(ONE, <<2, 5>>) ELSE @]

\* the number inputs of the width and of the iteration cap
number_inputs(state, input) ==
    IF input.edit = "width"
    THEN [state EXCEPT !.width = CHOOSE w \in TypedWidths : TRUE]
    ELSE IF input.edit = "iterations"
    THEN [state EXCEPT !.iterations = <<CHOOSE n \in TypedCaps : TRUE>>]
    ELSE state

\* the seed widget of Julia: the seed goes through f32 and back every frame
julia_seed(state, input) ==
    IF state.algo.tag # "Julia" THEN state
    ELSE IF input.edit = "seed" THEN [state EXCEPT !.algo = Julia(DraggedSeed)]
    ELSE CHOOSE r \in {[state EXCEPT !.algo = Julia(Imaginary(AsF32(c.re), AsF32(c.im)))] :
                          c \in {state.algo.c}} : TRUE

\* the checkbox "Coloured inside", shown for the escape-time algorithms
flags(state, input) ==
    IF input.edit = "inside" /\ state.algo.tag \in {"Mandelbrot", "Julia"}
    THEN [state EXCEPT !.inside = ~@]
    ELSE state

\* the key ArrowLeft and the scroll wheel
movement(state, input) ==
    IF input.edit = "left"
    THEN [state EXCEPT !.pos.re =
            FSub(@, FMul(FMul(FDiv(F(1), state.scale.re), PredictedDt), <<1, 2>>))]
    ELSE IF input.edit = "scroll"
    THEN [state EXCEPT !.scale = mul(@, FAdd(F(1), FDiv(ScrollDelta, F(80))))]
    ELSE state

\* the controls panel of App::update: the widgets and keys in their order
controls(state, input) ==
    movement(flags(julia_seed(number_inputs(combo_box(state, input), input), input),
                   input), input)

\* the reset that keeps the size of the image: the mutant of the reset
reset_on_switch_keeping_size(state, previous_state) ==
    IF is_different(state.algo, previous_state.algo)
    THEN [Config_default EXCEPT !.algo = state.algo, !.width = state.width,
                                !.height = state.height]
    ELSE state

\* `if self.state.algo.is_different(..) { self.state = Config { algo, ..default } }`
reset_on_switch(state, previous_state) ==
    IF is_different(state.algo, previous_state.algo)
    THEN [Config_default EXCEPT !.algo = state.algo]
    ELSE state

\* the inputs of a frame: a change of the combo box needs a click in it, and
\* the user clicks in the combo box or uses one other control
InputAllowed(input) ==
    /\ input.changed => input.select # "none"
    /\ input.select # "none" => input.edit = "none"

GuiInit ==
    /\ app = App_new
    /\ pc = "gui" /\ rec = Idle /\ cfg = Idle /\ rows = Idle /\ image = Idle
    /\ buf = Idle /\ call = Idle /\ walk = Idle /\ eval = Idle

GuiRest == <<pc, rec, cfg, rows, image, buf, call, walk, eval>>

\* App::update up to the controls: the closure `texture` takes the published
\* image under the lock, makes it the texture, and asks for a redraw when one
\* was deferred or when there is nothing to show
UpdateBegin ==
    /\ app # Idle /\ app.up.pc = "idle"
    /\ LET img == app.image
           shown == IF img # <<>> THEN img ELSE app.texture
           asks == IF img # <<>> THEN app.try_redraw ELSE app.texture = <<>>
       IN  app' = [app EXCEPT !.image = <<>>, !.texture = shown,
                       !.up = [pc |-> IF asks THEN "redraw_load" ELSE "controls",
                               then |-> "controls", previous_state |-> <<>>,
                               edited |-> <<>>, redraw |-> "none"]]
    /\ UNCHANGED GuiRest

\* request_redraw without the test of `working`: the mutant of RedrawLoad
RedrawLoad_unguarded ==
    /\ app # Idle /\ app.up.pc = "redraw_load"
    /\ app' = [app EXCEPT !.try_redraw = FALSE, !.up.pc = "redraw_store"]
    /\ UNCHANGED GuiRest

\* request_redraw, `if self.working.load(..)`: defer, or go on to send
RedrawLoad ==
    /\ app # Idle /\ app.up.pc = "redraw_load"
    /\ app' = IF app.working
              THEN [app EXCEPT !.try_redraw = TRUE, !.up.pc = app.up.then,
                               !.up.redraw = "deferred"]
              ELSE [app EXCEPT !.try_redraw = FALSE, !.up.pc = "redraw_store"]
    /\ UNCHANGED GuiRest

\* request_redraw, `self.working.store(true, ..)`
RedrawStore ==
    /\ app # Idle /\ app.up.pc = "redraw_store"
    /\ app' = [app EXCEPT !.working = TRUE, !.up.pc = "redraw_send"]
    /\ UNCHANGED GuiRest

\* request_redraw, `self.redraw_channel.send((self.state.clone(), frame))`
RedrawSend ==
    /\ app # Idle /\ app.up.pc = "redraw_send"
    /\ app' = [app EXCEPT !.channel = Append(@, app.state), !.up.pc = app.up.then,
                          !.up.redraw = "sent"]
    /\ UNCHANGED GuiRest

\* App::update from `previous_state = self.state.clone()` to the comparison
\* with it: the key M, the controls when the panel is on, the reset after a
\* switch of algorithm, and the call of request_redraw; the user changes the
\* configuration in at most MaxEdits frames
UpdateControlsOn(input) ==
    /\ app # Idle /\ app.up.pc = "controls"
    /\ InputAllowed(input)
    /\ \E previous_state \in {app.state},
          gui_on \in {IF input.m THEN ~app.gui_on ELSE app.gui_on} :
          \E edited \in {IF gui_on THEN controls(app.state, input) ELSE app.state} :
             \E changed \in {edited # previous_state} :
                /\ changed => app.edits < MaxEdits
                /\ app' = [app EXCEPT
                        !.gui_on = gui_on,
                        !.state = IF changed
                                  THEN reset_on_switch(edited, previous_state)
                                  ELSE edited,
                        !.edits = IF changed THEN @ + 1 ELSE @,
                        !.up = [pc |-> IF changed THEN "redraw_load" ELSE "end",
                                then |-> "end", previous_state |-> previous_state,
                                edited |-> edited,
                                redraw |-> IF changed THEN "called" ELSE "none"]]
    /\ UNCHANGED GuiRest

UpdateControls == \E input \in Inputs : UpdateControlsOn(input)

\* a frame in which the user does nothing
NoInput == [m |-> FALSE, select |-> "none", changed |-> FALSE, edit |-> "none"]

\* App::update returns: its locals are gone
UpdateEnd ==
    /\ app # Idle /\ app.up.pc = "end"
    /\ app' = [app EXCEPT !.up = update_idle]
    /\ UNCHANGED GuiRest

\* the worker thread, `redraw_rx.recv()`
WorkerRecv ==
    /\ app # Idle /\ app.worker.pc = "recv" /\ app.channel # <<>>
    /\ app' = [app EXCEPT !.channel = Tail(@),
                          !.worker = [pc |-> "render", config |-> Head(app.channel)]]
    /\ UNCHANGED GuiRest

\* the worker thread, get_image and `*image.lock().unwrap() = Some(..)`
WorkerPublish ==
    /\ app # Idle /\ app.worker.pc = "render"
    /\ app' = [app EXCEPT
                  !.image = << <<app.worker.config.width, app.worker.config.height>> >>,
                  !.worker.pc = "clear"]
    /\ UNCHANGED GuiRest

\* the worker thread, `working.store(false, ..)`
WorkerClear ==
    /\ app # Idle /\ app.worker.pc = "clear"
    /\ app' = [app EXCEPT !.working = FALSE, !.worker.pc = "repaint"]
    /\ UNCHANGED GuiRest

\* the worker thread, `frame.request_repaint()`
WorkerRepaint ==
    /\ app # Idle /\ app.worker.pc = "repaint"
    /\ app' = [app EXCEPT !.worker = worker_idle]
    /\ UNCHANGED GuiRest

GuiNext ==
    \/ UpdateBegin
    \/ RedrawLoad
    \/ RedrawStore
    \/ RedrawSend
    \/ UpdateControls
    \/ UpdateEnd
    \/ WorkerRecv
    \/ WorkerPublish
    \/ WorkerClear
    \/ WorkerRepaint

SpecGui == GuiInit /\ [][GuiNext]_vars

\* C16: when the frame's controls leave another algorithm selected than the
\* frame began with, the configuration becomes the default one with only the
\* new algorithm kept (so the iteration cap and the colours are the new
\* algorithm's defaults), and a redraw is requested
AfterControls ==
    /\ app # Idle
    /\ app.up.previous_state # <<>>
    /\ app.up.edited.algo.tag # app.up.previous_state.algo.tag

C16_SwitchResets ==
    AfterControls =>
        /\ app.state = [Config_default EXCEPT !.algo = app.up.edited.algo]
        /\ iterations(app.state) = calc_Config_new(app.state.algo.tag).iterations
        /\ primary_color(app.state) = calc_Config_new(app.state.algo.tag).primary_color
        /\ secondary_color(app.state) = calc_Config_new(app.state.algo.tag).secondary_color
        /\ app.up.redraw # "none"

C16_Witness ==
    /\ AfterControls
    /\ app.up.edited.algo.tag = "BarnsleyFern"
    /\ app.up.previous_state.width = 100
    /\ app.up.edited.width = 100
    /\ app.state.width = 2000
    /\ app.up.redraw = "sent"

\* the steps of the render thread
WorkerThread == WorkerRecv \/ WorkerPublish \/ WorkerClear \/ WorkerRepaint

\* The scheduling of the GUI: the render thread runs when it can, a call of
\* update runs to its end whatever the user does, and frames keep coming
\* (eframe calls update again after every event and every request_repaint)
GuiFairness ==
    /\ WF_vars(UpdateBegin) /\ WF_vars(RedrawLoad) /\ WF_vars(RedrawStore)
    /\ WF_vars(RedrawSend) /\ WF_vars(UpdateControlsOn(NoInput)) /\ WF_vars(UpdateEnd)
    /\ WF_vars(WorkerThread)

SpecGuiLive == GuiInit /\ [][GuiNext]_vars /\ GuiFairness

\* a redraw was put off: request_redraw found `working` set
Deferred == app # Idle /\ app.try_redraw

\* request_redraw has just sent the current configuration to the render thread
SentCurrent ==
    /\ app # Idle
    /\ app.channel # <<>>
    /\ app.channel[Len(app.channel)] = app.state

\* C21: a redraw that request_redraw put off because a render was in flight
\* leads to a further render of the then-current configuration being sent
C21_DeferredRedrawIsSent == Deferred ~> SentCurrent

\* the render requests waiting in the redraw channel or being rendered
InFlight ==
    Len(app.channel) + (IF app.worker.pc = "render" THEN 1 ELSE 0)

\* C22: at most one render request is queued in the redraw channel or being
\* rendered, and while there is one `working` is set
C22_AtMostOneInFlight ==
    app # Idle => InFlight <= 1 /\ (InFlight = 1 => app.working)

\* a request_redraw is put off while the render thread renders the one before
C22_Witness ==
    /\ app # Idle
    /\ app.worker.pc = "render"
    /\ app.up.redraw = "deferred"
    /\ app.try_redraw
    /\ app.state # app.worker.config

\* an update that changes the seed of Julia and nothing else
SeedOnlyChange ==
    /\ app # Idle
    /\ app.up.previous_state # <<>>
    /\ app.up.previous_state.algo.tag = "Julia"
    /\ app.up.edited.algo.tag = "Julia"
    /\ app.up.edited.algo # app.up.previous_state.algo
    /\ app.up.edited = [app.up.previous_state EXCEPT !.algo = app.up.edited.algo]

\* C30: an update that changes only the seed of Julia is no switch of
\* algorithm: is_different is false, the state keeps every other field as the
\* controls left it, and request_redraw is called
C30_SeedChangeIsNoSwitch ==
    SeedOnlyChange =>
        /\ ~is_different(app.up.edited.algo, app.up.previous_state.algo)
        /\ app.state = app.up.edited
        /\ app.up.redraw # "none"

\* the seed is dragged in a configuration whose width is not the default
C30_Witness ==
    /\ SeedOnlyChange
    /\ app.up.previous_state.width # Config_default.width
    /\ app.state.width = app.up.previous_state.width
    /\ app.state.algo = Julia(DraggedSeed)
    /\ app.up.redraw = "sent"

----------------------------------------------------------------------------
(* The fern on its own: get_image on a BarnsleyFern Config, from the        *)
(* pre-fill to the return of the buffer.  Besides the framings of           *)
(* FernFrames the Config may carry a scale too large for the pixel          *)
(* coordinates: the y target of the first point is then cast to usize::MAX  *)
(* (`as usize` saturates), as it is for any scale.im from about 1e20 on.    *)

\* framings whose targets leave the range of usize: pos and scale
FernFarFrames ==
    {<<Imaginary(F(0), F(0)), Imaginary(<<1, 0>>, <<1, 0>>)>>}

FernFarConfigs ==
    {Config(BarnsleyFern, width, height, <<cap>>,
            [pos |-> frame[1], scale |-> frame[2], limit |-> F(2),
             stable_limit |-> F(2), exposure |-> F(2), primary_color |-> <<>>,
             color_weight |-> <<1, 100>>], TRUE, TRUE) :
        width \in 1..MaxDim, height \in 1..MaxDim,
        cap \in 0..MaxFernIter, frame \in FernFarFrames}

FernInit ==
    /\ cfg \in FernConfigs \cup FernFarConfigs
    /\ pc = "start"
    /\ rec = Idle /\ rows = Idle /\ image = Idle
    /\ buf = Idle /\ call = Idle /\ walk = Idle /\ eval = Idle /\ app = Idle

FernNext ==
    \/ GetImage
    \/ FernIter
    \/ FernReturn

SpecFern == FernInit /\ [][FernNext]_vars

\* the first point of the walk: pos * (width, height)
start_point == <<FMul(cfg.pos.re, F(cfg.width)), FMul(cfg.pos.im, F(cfg.height))>>

\* C23: the fern is a sequential walk.  No run is cut short, a run that is
\* over has made exactly `iterations` blend-write attempts, every attempt
\* made so far was followed by its draw and map (so the point of the last map
\* has not been plotted), and the first attempt plots pos * (width, height).
C23_SequentialWalk ==
    (pc \in {"fern", "done", "panicked"} /\ IsFern)
        => /\ pc # "panicked"
           /\ call.n = walk.i
           /\ (pc = "done" => call.n = iterations(cfg))
           /\ (call.n = 1
                 => <<call.fx, call.fy>>
                        = fern_target(cfg, start_point[1], start_point[2]))

----------------------------------------------------------------------------
(* The escape-time arm of get_image as evaluator steps.  Each row y has a   *)
(* worker that runs `for x in 0..config.width`, calling                     *)
(* get_recursive_pixel, whose call of `recursive` runs one loop pass per    *)
(* step; the workers of the rows interleave.  A row is [x, rec, steps]:     *)
(* the pixel it is at, the loop state of that pixel and the loop passes     *)
(* its pixels have made so far.                                             *)

\* the colorings do not reach the evaluator: one value of inside and smooth
StepConfigs == {config \in EscapeConfigs : config.inside /\ config.smooth}

\* the call of `recursive` made by get_recursive_pixel(config, x, y), on entry
evaluator_enter(config, x, y) ==
    LET start == xy_to_imaginary(x, y, F(config.width), F(config.height),
                                 config.pos, config.scale)
    IN  IF config.algo.tag = "Mandelbrot"
        THEN recursive_enter(iterations(config), start, start, config.limit)
        ELSE recursive_enter(iterations(config), start, config.algo.c, config.limit)

StepsInit ==
    /\ cfg \in StepConfigs
    /\ pc = "start"
    /\ rec = Idle /\ rows = Idle /\ image = Idle
    /\ buf = Idle /\ call = Idle /\ walk = Idle /\ eval = Idle /\ app = Idle

\* get_image starts a worker per row; each enters its first pixel
StepsBegin ==
    /\ pc = "start"
    /\ IsEscapeTime
    /\ pc' = "rows"
    /\ rows' = [y \in 0..(cfg.height - 1) |->
                  [x |-> 0, rec |-> evaluator_enter(cfg, 0, y), steps |-> 0]]
    /\ UNCHANGED <<rec, cfg, image, buf, call, walk, eval, app>>

\* one pass of the loop of `recursive` for the pixel the row y is at
PixelStep(y) ==
    /\ pc = "rows"
    /\ rows[y].x < cfg.width
    /\ rows[y].rec.pc = "loop"
    /\ \E after \in {recursive_step(rows[y].rec)} :
          rows' = [rows EXCEPT ![y].rec = after,
                               ![y].steps = @ + (after.evaluated - rows[y].rec.evaluated)]
    /\ UNCHANGED <<pc, rec, cfg, image, buf, call, walk, eval, app>>

\* `recursive` has returned: the pixel is pushed and the row goes to the next x
PixelReturn(y) ==
    /\ pc = "rows"
    /\ rows[y].x < cfg.width
    /\ rows[y].rec.pc = "done"
    /\ rows' = [rows EXCEPT ![y].x = @ + 1,
                            ![y].rec = IF rows[y].x + 1 < cfg.width
                                       THEN evaluator_enter(cfg, rows[y].x + 1, y)
                                       ELSE @]
    /\ UNCHANGED <<pc, rec, cfg, image, buf, call, walk, eval, app>>

\* every row is finished: get_image returns
StepsReturn ==
    /\ pc = "rows"
    /\ \A y \in DOMAIN rows : rows[y].x = cfg.width
    /\ pc' = "done"
    /\ UNCHANGED <<rec, cfg, rows, image, buf, call, walk, eval, app>>

StepsNext ==
    \/ StepsBegin
    \/ \E y \in 0..(cfg.height - 1) : PixelStep(y)
    \/ \E y \in 0..(cfg.height - 1) : PixelReturn(y)
    \/ StepsReturn

SpecSteps == StepsInit /\ [][StepsNext]_vars

\* the loop passes made so far by the rows y, y + 1, ..
RECURSIVE steps_from(_)
steps_from(y) == IF y >= cfg.height THEN 0 ELSE rows[y].steps + steps_from(y + 1)

\* how far the row is: N + 2 for each pixel pushed, and for the pixel it is
\* at the passes made, plus one when `recursive` has returned
row_progress(row) ==
    row.x * (iterations(cfg) + 2)
        + (IF row.x < cfg.width
           THEN row.rec.evaluated + (IF row.rec.pc = "done" THEN 1 ELSE 0)
           ELSE 0)

RECURSIVE progress_from(_)
progress_from(y) ==
    IF y >= cfg.height THEN 0 ELSE row_progress(rows[y]) + progress_from(y + 1)

progress == progress_from(0) + (IF pc = "done" THEN 1 ELSE 0)

\* some step of the render can be taken
CanStep ==
    \/ \E y \in DOMAIN rows : rows[y].x < cfg.width /\ rows[y].rec.pc \in {"loop", "done"}
    \/ \A y \in DOMAIN rows : rows[y].x = cfg.width

\* C24: every call of the evaluator makes at most N loop passes and then
\* returns a count of at most N, and the render makes at most
\* width * height * N passes in all; the render always reaches its end: an
\* unfinished render can take a step, and each step raises a progress measure
\* that never exceeds width * height * (N + 2) + 1.
C24_EvaluatorTerminates ==
    /\ [](pc \in {"rows", "done"}
            => /\ \A y \in DOMAIN rows :
                     /\ rows[y].rec.evaluated <= iterations(cfg)
                     /\ rows[y].rec.pc = "done" => rows[y].rec.ret[2] <= iterations(cfg)
                     /\ rows[y].steps <= cfg.width * iterations(cfg)
               /\ steps_from(0) <= cfg.width * cfg.height * iterations(cfg)
               /\ progress <= cfg.width * cfg.height * (iterations(cfg) + 2) + 1
               /\ pc = "rows" => CanStep)
    /\ [][pc = "rows" => progress' > progress]_vars

\* a finished render of several rows in which a pixel ran the full cap and
\* another escaped before it
C24_Witness ==
    /\ pc = "done"
    /\ cfg.height >= 2 /\ cfg.width >= 2
    /\ iterations(cfg) >= 2
    /\ \E y \in DOMAIN rows : rows[y].steps = cfg.width * iterations(cfg)
    /\ steps_from(0) < cfg.width * cfg.height * iterations(cfg)
    /\ steps_from(0) > 0

----------------------------------------------------------------------------
(* The length of the fern buffer.                                           *)

\* C25: for every width and height the fern buffer is allocated, with
\* exactly width * height elements (the mathematical product).
C25_BufferLenIsProduct ==
    (eval # Idle /\ eval.op = "buffer_len" /\ eval.pc = "done")
        => /\ eval.result.kind = "allocated"
           /\ eval.result.len = product(eval.args.width, eval.args.height)

----------------------------------------------------------------------------
(* pixel_mut and the bounds of the buffer.                                  *)

\* C26: for all x and y, pixel_mut(x, y) returns absent or the slot of index
\* y * width + x, and then that index is below the length of the buffer: it
\* never panics and never returns a slot of another index.
C26_PixelMutInBounds ==
    call.n > 0
        => /\ call.outcome.kind \in {"none", "some"}
           /\ call.outcome.kind = "some"
                 => /\ call.x # USIZE_MAX /\ call.y # USIZE_MAX
                    /\ call.outcome.index = call.y * buf.width + call.x
                    /\ call.outcome.index < Len(buf.contents)

----------------------------------------------------------------------------
(* Blend-writes and the brightness of the pixels.                           *)

\* every channel of p is at most the same channel of q
Darker(p, q) == p.r <= q.r /\ p.g <= q.g /\ p.b <= q.b

\* C27: a blend-write with amount >= 0 leaves each channel of every pixel at
\* most its value before the call, and so every pixel stays at most the
\* pre-fill, channel by channel.
C27_BlendOnlyDarkens ==
    (call.n > 0 /\ FGe(call.amount, F(0)))
        => \A j \in 1..Len(buf.contents) :
              /\ Darker(buf.contents[j], call.before[j])
              /\ Darker(buf.contents[j], call.fill)

----------------------------------------------------------------------------
(* The branch that colors a pixel.                                          *)

PixelColored == eval # Idle /\ eval.op = "get_recursive_pixel" /\ eval.pc = "done"

\* C28: when limit * limit >= stable_limit, a pixel whose evaluation escaped
\* (count below N) is colored by the outside branch, and a pixel colored by
\* the inside branch, with the inside color or black, ran the full cap.
C28_EscapedIsOutside ==
    (PixelColored
        /\ FGe(FMul(eval.args.config.limit, eval.args.config.limit),
               eval.args.config.stable_limit))
        => /\ eval.result.escape[2] < iterations(eval.args.config)
                 => eval.result.branch = "outside"
           /\ eval.result.branch \in {"inside", "black"}
                 => eval.result.escape[2] = iterations(eval.args.config)

\* a pixel that escaped after its first pass, with stable_limit strictly below
\* limit * limit
C28_Witness ==
    /\ PixelColored
    /\ FGt(FMul(eval.args.config.limit, eval.args.config.limit),
           eval.args.config.stable_limit)
    /\ eval.result.escape[2] >= 1
    /\ eval.result.escape[2] < iterations(eval.args.config)
    /\ eval.result.branch = "outside"

----------------------------------------------------------------------------
(* The dispatch of get_image.                                               *)

\* C29: the rows of get_recursive_pixel run only for Mandelbrot and Julia and
\* the fern only for BarnsleyFern, so no call of get_recursive_pixel made by
\* get_image reaches the arm that panics.
C29_DispatchByAlgo ==
    /\ (pc = "rows" \/ (pc = "done" /\ rows # Idle)) => IsEscapeTime
    /\ (pc \in {"fern", "panicked"} \/ (pc = "done" /\ buf # Idle)) => IsFern
    /\ pc = "done" => (rows # Idle) # (buf # Idle)

\* a Julia render with a row mapped by get_recursive_pixel
C29_Witness ==
    /\ pc = "rows"
    /\ cfg.algo.tag = "Julia"
    /\ \E y \in DOMAIN rows[1].vecs : rows[1].vecs[y] # <<>>

====
